---- MODULE Spec2Model ----
(***************************************************************************)
(* Model of pawnai_recorder's capture-to-persistence pipeline:            *)
(* MicrophoneStream (core/recording.py), RecordingLogger (core/log.py)    *)
(* and the gain stage (core/processing.py).                               *)
(*                                                                         *)
(* Threads: the main thread (constructor, start_recording, stop_recording),*)
(* the PortAudio callback thread (_fill_buffer) and one daemon thread per  *)
(* chunk (_save).  stop_stream() returns only when the callback thread has *)
(* stopped, so no callback runs once the stream is closed.                 *)
(***************************************************************************)
EXTENDS Integers, Sequences, FiniteSets, TLC

\* ---------------------------------------------------------------- bounds
MaxChunks == 2       \* chunks the callback hands off in one run
MaxBuffers == 3      \* buffers the device delivers in one run
MaxChunkSize == 2    \* largest chunk_size threshold tried
MaxStops == 2        \* calls of stop_recording in one run
MaxSamples == 2      \* longest buffer, in samples, given to a pure function
MaxStrLen == 2       \* longest string given to build_object_key
MaxWriters == 3      \* threads writing to one RecordingLogger
MaxSavers == 3       \* save threads updating the total at once
MaxDeliveries == 3   \* buffers delivered while statements are followed
MaxTicks == 2        \* seconds that pass on the clock in one run

\* ------------------------------------------------------ program constants
CHUNK == 16000
CHANNEL == 1
MP3_REQUIRED_RATE == 16000
MP3_REQUIRED_CHANNELS == 1
max_int16 == 32767

\* ----------------------------------------------------------------- inputs
Formats == {"flac", "MP3"}         \* --format, compared in lower case
Rates == {16000, 48000}          \* requested rate / device defaultSampleRate
Gains == {<<1, 1>>, <<3, 2>>}    \* gain_factor as numerator/denominator
Null == "null"
SessionId == "S"
NoKey == <<>>                    \* s3_object_key = None

VARIABLES
  pc,                \* position of the main thread
  file_format,       \* self._file_format
  rate,              \* self._rate
  chunk_size,        \* self._chunk_size
  gain_factor,       \* self._gain_factor
  uploader,          \* self._uploader is not None
  audio_stream,      \* self._audio_stream: "none", "open", "closed"
  current_db_level,  \* self._current_db_level, as the decade floor(dB / 10) * 10
  recording_frames,  \* self._recording_frames
  count,             \* self._count
  total_duration,    \* self._total_duration_sec, in samples (x / rate = seconds)
  saving_threads,    \* self._saving_threads: thread ids in creation order
  tasks,             \* the save threads: args and position of each _save call
  threads_snapshot,  \* stop_recording's local threads_snapshot
  join_i,            \* stop_recording's position in the join loop
  log,               \* the lines of the JSONL log file
  delivered,         \* history: gain-adjusted buffers in delivery order
  abandoned,         \* history: threads whose join timed out
  stops,             \* history: calls of stop_recording so far
  show_level_meter,  \* self._show_level_meter (the constructor's argument)
  call,              \* a call of one of the pure functions: arguments and result
  logger,            \* a RecordingLogger followed write by write: lock, file, callers
  adder,             \* _save's "+=" of the total followed load by store: lock, total, threads
  api,               \* a MicrophoneStream followed statement by statement under any calls
  sess               \* a MicrophoneStream and the clock its timestamps are read from

vars == <<pc, file_format, rate, chunk_size, gain_factor, uploader, audio_stream,
          current_db_level, recording_frames, count, total_duration, saving_threads, tasks,
          threads_snapshot, join_i, log, delivered, abandoned, stops,
          show_level_meter, call, logger, adder, api, sess>>

\* -------------------------------------------------------- pure functions
Lower(s) == IF s = "MP3" THEN "mp3" ELSE s

Abs(x) == IF x < 0 THEN -x ELSE x

\* Integer division truncating toward zero (the float -> int16 cast).
TruncDiv(a, b) == IF a >= 0 THEN a \div b ELSE -((-a) \div b)

\* astype(np.int16) of a value outside the int16 range is undefined in C:
\* the build either wraps modulo 2^16 or saturates.
CastInt16(v) ==
  IF v >= -32768 /\ v <= 32767 THEN {v}
  ELSE {((v + 32768) % 65536) - 32768, IF v > 0 THEN 32767 ELSE -32768}

Clip(v, lo, hi) == IF v < lo THEN lo ELSE IF v > hi THEN hi ELSE v

GainSample(s, g) ==
  {Clip(c, -max_int16, max_int16) : c \in CastInt16(TruncDiv(s * g[1], g[2]))}

RECURSIVE GainSeq(_, _)
GainSeq(buf, g) ==
  IF buf = <<>> THEN {<<>>}
  ELSE {<<h>> \o t : h \in GainSample(Head(buf), g), t \in GainSeq(Tail(buf), g)}

\* Mutant: the test of gain_factor == 1.0 is dropped.
apply_gain_NoIdentity(audio_data, g) == GainSeq(audio_data, g)

\* apply_gain: the set of buffers the call can return.
apply_gain(audio_data, g) ==
  IF g[1] = g[2] THEN {audio_data} ELSE GainSeq(audio_data, g)

\* round(x, 3) of x = num / den seconds, as an integer number of milliseconds
\* (nearest, ties to even).
Round3(num, den) ==
  LET q == (1000 * num) \div den
      r == (1000 * num) % den
  IN  IF 2 * r > den THEN q + 1
      ELSE IF 2 * r < den THEN q
      ELSE IF q % 2 = 0 THEN q ELSE q + 1

\* The k-th buffer the device delivers: one sample, tagged by k.
InputBuffer(k) == <<k * 100>>

\* No pure-function call is being followed.
NoCall == [fn |-> "none", args |-> <<>>, result |-> <<>>, returned |-> FALSE]

\* No RecordingLogger is followed write by write.
NoLogger == [lock |-> 0, file |-> <<>>, writers |-> <<>>]

\* No "+=" of the total is followed load by store.
NoAdder == [lock |-> 0, total |-> 0, threads |-> <<>>]

\* No MicrophoneStream is followed statement by statement.
NoApi == [main |-> "none"]

\* No MicrophoneStream is followed with its clock.
NoSess == [pc |-> "none"]

\* What the recorder's own steps leave alone: the constructor's
\* show_level_meter argument, the pure-function call, the logger followed
\* write by write, the "+=" followed load by store, the recorder followed
\* statement by statement and the one followed with its clock.
EnvUnchanged == UNCHANGED <<show_level_meter, call, logger, adder, api, sess>>

\* ------------------------------------------------------------------ Init
\* The recorder before its constructor has run.
RecorderNew ==
  /\ pc = "new"
  /\ file_format = Null
  /\ rate = 0
  /\ chunk_size = 0
  /\ gain_factor = <<1, 1>>
  /\ uploader = FALSE
  /\ audio_stream = "none"
  /\ current_db_level = 0
  /\ recording_frames = <<>>
  /\ count = 0
  /\ total_duration = 0
  /\ saving_threads = <<>>
  /\ tasks = <<>>
  /\ threads_snapshot = <<>>
  /\ join_i = 0
  /\ log = <<>>
  /\ delivered = <<>>
  /\ abandoned = {}
  /\ stops = 0

\* The recorder as the record command builds it: show_level_meter=True.
Init ==
  /\ RecorderNew
  /\ show_level_meter = TRUE
  /\ call = NoCall
  /\ logger = NoLogger
  /\ adder = NoAdder
  /\ api = NoApi
  /\ sess = NoSess

\* ------------------------------------------------------------ level meter
RECURSIVE SumSq(_)
SumSq(buf) ==
  IF buf = <<>> THEN 0
  ELSE IF Len(buf) = 1 THEN buf[1] * buf[1]
  ELSE LET h == Len(buf) \div 2
       IN  SumSq(SubSeq(buf, 1, h)) + SumSq(SubSeq(buf, h + 1, Len(buf)))

\* a / b >= c / d for a, c >= 0 and b, d > 0, by continued fractions (no
\* product is formed, so nothing overflows).
RECURSIVE RatGeq(_, _, _, _)
RatGeq(a, b, c, d) ==
  IF a \div b # c \div d THEN a \div b > c \div d
  ELSE IF c % d = 0 THEN TRUE
  ELSE IF a % b = 0 THEN FALSE
  ELSE RatGeq(d, c % d, b, a % b)

\* 20 * log10(rms / 32768) + 120 >= 10 * j, that is
\* mean square >= 2^30 / 10^(12 - j) = 2^(18 + j) / 5^(12 - j).
DbAtLeast(sumsq, n, j) == RatGeq(sumsq, n, 2^(18 + j), 5^(12 - j))

\* db + 120 before the clamp, as its decade floor(x / 10) * 10; -20 stands for
\* every value below -10 (a buffer of 16000 samples cannot go below -12.4).
RawDb(audio_data) ==
  10 * (Cardinality({j \in -1..12 :
                      DbAtLeast(SumSq(audio_data), Len(audio_data), j)}) - 2)

Max(a, b) == IF a >= b THEN a ELSE b
Min(a, b) == IF a <= b THEN a ELSE b

\* Mutant: the value is returned without max(0, min(120, ...)).
ClampDb_None(db) == db

\* db = max(0, min(120, db + 120))
ClampDb(db) == Max(0, Min(120, db))

\* calculate_db_level on an array of samples: the decade of the level; 0 for an
\* empty buffer (the mean of nothing is nan, and nan > 0 is false) and for
\* silence.
calculate_db_level(audio_data) ==
  IF audio_data = <<>> \/ SumSq(audio_data) = 0 THEN 0
  ELSE ClampDb(RawDb(audio_data))

\* ------------------------------------------------------------ log records
\* Mutant: the record shows the rate mp3 requires, not self._rate.
SessionStartRecord_FixedRate ==
  [type |-> "session", event |-> "start", session_id |-> SessionId,
   sample_rate |-> MP3_REQUIRED_RATE, channels |-> CHANNEL, format |-> file_format]

\* write_session_start's record: sample_rate=self._rate, after the device's
\* rate has replaced the requested one.
SessionStartRecord ==
  [type |-> "session", event |-> "start", session_id |-> SessionId,
   sample_rate |-> rate, channels |-> CHANNEL, format |-> file_format]

ChunkRecord(t) ==
  [type |-> "chunk", session_id |-> SessionId, chunk_index |-> tasks[t].count,
   duration_sec |-> Round3(tasks[t].duration, rate),
   s3_object_key |-> tasks[t].s3_object_key, s3_uploaded |-> tasks[t].s3_uploaded]

SessionEndRecord ==
  [type |-> "session", event |-> "end", session_id |-> SessionId,
   total_duration_sec |-> Round3(total_duration, rate), chunk_count |-> count]

\* --------------------------------------------------------- MicrophoneStream
\* Mutant: the format is compared without lower().
Mp3ConfigOk_CaseSensitive(fmt, r) ==
  fmt = "mp3" => (r = MP3_REQUIRED_RATE /\ CHANNEL = MP3_REQUIRED_CHANNELS)

\* __init__: the MP3 requirements checked before anything else.
Mp3ConfigOk(fmt, r) ==
  Lower(fmt) = "mp3" => (r = MP3_REQUIRED_RATE /\ CHANNEL = MP3_REQUIRED_CHANNELS)

Construct ==
  /\ EnvUnchanged
  /\ pc = "new"
  /\ \E fmt \in Formats, r \in Rates, cs \in 1..MaxChunkSize, g \in Gains,
        up \in BOOLEAN :
       IF ~Mp3ConfigOk(fmt, r)
       THEN /\ pc' = "config_error"
            /\ UNCHANGED <<file_format, rate, chunk_size, gain_factor, uploader>>
       ELSE /\ pc' = "idle"
            /\ file_format' = fmt
            /\ rate' = r
            /\ chunk_size' = cs
            /\ gain_factor' = g
            /\ uploader' = up
  /\ UNCHANGED <<audio_stream, current_db_level, recording_frames, count,
                 total_duration, saving_threads, tasks, threads_snapshot, join_i,
                 log, delivered, abandoned, stops>>

\* start_recording up to the return of open(): the device's rate replaces the
\* requested one and the stream runs, with _fill_buffer as its callback.
StartOpen ==
  /\ EnvUnchanged
  /\ pc = "idle"
  /\ \E device_sample_rate \in Rates : rate' = device_sample_rate
  /\ audio_stream' = "open"
  /\ pc' = "opened"
  /\ UNCHANGED <<file_format, chunk_size, gain_factor, uploader, current_db_level,
                 recording_frames, count, total_duration, saving_threads, tasks,
                 threads_snapshot, join_i, log, delivered, abandoned, stops>>

\* Mutant: the stream counts as open although open() raised.
AfterFailedOpen_Open(stream) == "open"

\* self._audio_stream when get_device_info_by_index or open() raises: the
\* assignment of open()'s result never happens.
AfterFailedOpen(stream) == stream

\* start_recording raising: get_device_info_by_index (rate untouched) or open()
\* (rate already replaced) fails; record()'s handler then calls stop_recording.
StartFail ==
  /\ EnvUnchanged
  /\ pc = "idle"
  /\ \E r \in Rates \cup {rate} : rate' = r
  /\ audio_stream' = AfterFailedOpen(audio_stream)
  /\ pc' = "start_failed"
  /\ UNCHANGED <<file_format, chunk_size, gain_factor, uploader,
                 current_db_level, recording_frames, count, total_duration,
                 saving_threads, tasks, threads_snapshot, join_i, log, delivered,
                 abandoned, stops>>

\* start_recording's last statement: write_session_start.
StartLog ==
  /\ EnvUnchanged
  /\ pc = "opened"
  /\ log' = Append(log, SessionStartRecord)
  /\ pc' = "running"
  /\ UNCHANGED <<file_format, rate, chunk_size, gain_factor, uploader, audio_stream,
                 current_db_level, recording_frames, count, total_duration,
                 saving_threads, tasks, threads_snapshot, join_i, delivered,
                 abandoned, stops>>

\* _create_chunk_saving_thread: the thread that will run _save(frames, count).
NewTask(saving_frames, cnt) ==
  [frames |-> saving_frames, count |-> cnt, pc |-> "encode", duration |-> 0,
   s3_object_key |-> NoKey, s3_uploaded |-> FALSE,
   encoded |-> FALSE, upload_error |-> FALSE]

\* Mutant: the copy holds the newest buffer alone.
CopyFrames_Newest(frames) == <<frames[Len(frames)]>>

\* saving_frames = self._recording_frames[:]
CopyFrames(frames) == frames

\* Mutant: the accumulator is not reset after the hand-off.
AfterHandoff_Keep(frames) == frames

\* self._recording_frames = [] after the copy.
AfterHandoff(frames) == <<>>

\* Mutant: the flush test is off by one.
FlushNeeded_Gt(frames, size) == Len(frames) > size

\* _fill_buffer's flush test.
FlushNeeded(frames, size) == Len(frames) >= size

\* Mutant: the increment of self._count is forgotten.
NextCount_Same(c) == c

\* The index a hand-off gives its chunk (self._count += 1).
NextCount(c) == c + 1

\* Mutant: the level is computed on the buffer as delivered, before the gain.
LevelInput_Raw(in_data, processed_data) == in_data

\* The buffer whose level _fill_buffer computes: the gain-adjusted one.
LevelInput(in_data, processed_data) == processed_data

\* Mutant: _save's "with self._save_lock" block also covers the upload.
LockHeldAt_Upload(step) == step = "upload"

\* Whether _save holds _save_lock while it is at the given step.  The lock is
\* taken and released inside the duration step, around the += alone, so it is
\* held across none of encode, upload and log.
LockHeldAt(step) == FALSE

\* The save threads that hold _save_lock.
SaveLockHolders == {t \in 1..Len(tasks) : LockHeldAt(tasks[t].pc)}

\* _fill_buffer, one invocation by the callback thread.  It takes _save_lock
\* only in _create_chunk_saving_thread, to append the new thread.
FillBuffer ==
  /\ EnvUnchanged
  /\ audio_stream = "open"
  /\ count < MaxChunks
  /\ Len(delivered) < MaxBuffers
  /\ \E processed_data \in apply_gain(InputBuffer(Len(delivered) + 1), gain_factor) :
       LET appended == Append(recording_frames, processed_data) IN
       /\ delivered' = Append(delivered, processed_data)
       /\ current_db_level' = IF show_level_meter
                                THEN calculate_db_level(
                                       LevelInput(InputBuffer(Len(delivered) + 1),
                                                  processed_data))
                                ELSE current_db_level
       /\ IF FlushNeeded(appended, chunk_size)
          THEN /\ SaveLockHolders = {}
               /\ recording_frames' = AfterHandoff(appended)
               /\ count' = NextCount(count)
               /\ tasks' = Append(tasks, NewTask(CopyFrames(appended), NextCount(count)))
               /\ saving_threads' = Append(saving_threads, Len(tasks) + 1)
          ELSE /\ recording_frames' = appended
               /\ UNCHANGED <<count, tasks, saving_threads>>
  /\ UNCHANGED <<pc, file_format, rate, chunk_size, gain_factor, uploader,
                 audio_stream, total_duration, threads_snapshot, join_i, log,
                 abandoned, stops>>

\* stop_recording, first part: stop and close the stream, terminate PyAudio.
\* Nothing in stop_recording looks at whether the session was already stopped.
StopClose ==
  /\ EnvUnchanged
  /\ pc \in {"running", "start_failed", "stopped"}
  /\ stops < MaxStops
  /\ stops' = stops + 1
  /\ audio_stream' = IF audio_stream = "open" THEN "closed" ELSE audio_stream
  /\ pc' = "stop_flush"
  /\ UNCHANGED <<file_format, rate, chunk_size, gain_factor, uploader,
                 current_db_level, recording_frames, count, total_duration,
                 saving_threads, tasks, threads_snapshot, join_i, log, delivered,
                 abandoned>>

\* Mutant: the snapshot is taken before the last chunk's thread is created.
SnapshotOf_BeforeFlush(before_flush, after_flush) == before_flush

\* threads_snapshot = list(self._saving_threads) comes after the flush of the
\* remaining frames, so it holds the last chunk's thread as well.
SnapshotOf(before_flush, after_flush) == after_flush

\* Mutant: stop_recording hands the accumulator off whatever it holds.
StopFlushNeeded_Always(frames) == TRUE

\* stop_recording's flush test: "if self._recording_frames:".
StopFlushNeeded(frames) == frames # <<>>

\* stop_recording: the remaining frames become a last, short chunk; then
\* threads_snapshot = list(self._saving_threads), under _save_lock.
StopFlush ==
  /\ EnvUnchanged
  /\ pc = "stop_flush"
  /\ SaveLockHolders = {}
  /\ IF StopFlushNeeded(recording_frames)
     THEN /\ recording_frames' = AfterHandoff(recording_frames)
          /\ count' = NextCount(count)
          /\ tasks' = Append(tasks, NewTask(CopyFrames(recording_frames),
                                             NextCount(count)))
          /\ saving_threads' = Append(saving_threads, Len(tasks) + 1)
     ELSE UNCHANGED <<recording_frames, count, tasks, saving_threads>>
  /\ threads_snapshot' = SnapshotOf(saving_threads, saving_threads')
  /\ join_i' = 1
  /\ pc' = "stop_join"
  /\ UNCHANGED <<file_format, rate, chunk_size, gain_factor, uploader, audio_stream,
                 current_db_level, total_duration, log, delivered, abandoned, stops>>

Finished(t) == tasks[t].pc \in {"done", "failed"}

\* Mutant: stop_recording joins nothing.
JoinList_None(snapshot) == <<>>

\* The threads stop_recording joins.
JoinList(snapshot) == snapshot

\* t.join(timeout=30.0) returning because the thread has ended.
StopJoin ==
  /\ EnvUnchanged
  /\ pc = "stop_join"
  /\ join_i <= Len(JoinList(threads_snapshot))
  /\ Finished(JoinList(threads_snapshot)[join_i])
  /\ join_i' = join_i + 1
  /\ UNCHANGED <<pc, file_format, rate, chunk_size, gain_factor, uploader,
                 audio_stream, current_db_level, recording_frames, count,
                 total_duration, saving_threads, tasks, threads_snapshot, log,
                 delivered, abandoned, stops>>

\* Mutant: join() is called without a timeout and returns only with the thread.
JoinGivesUp_Never(t) == FALSE

\* join(timeout=30.0) returns although thread t is still running.
JoinGivesUp(t) == ~Finished(t)

\* Mutant: the thread whose join timed out is cancelled.
AfterJoinTimeout_Cancel(task) == [task EXCEPT !.pc = "failed"]

\* What a join that timed out does to the thread: nothing, join() only stops
\* waiting.
AfterJoinTimeout(task) == task

\* t.join(timeout=30.0) returning at the timeout: the thread is left running.
StopJoinTimeout ==
  /\ EnvUnchanged
  /\ pc = "stop_join"
  /\ join_i <= Len(JoinList(threads_snapshot))
  /\ JoinGivesUp(JoinList(threads_snapshot)[join_i])
  /\ abandoned' = abandoned \cup {JoinList(threads_snapshot)[join_i]}
  /\ tasks' = [tasks EXCEPT ![JoinList(threads_snapshot)[join_i]] =
                              AfterJoinTimeout(@)]
  /\ join_i' = join_i + 1
  /\ UNCHANGED <<pc, file_format, rate, chunk_size, gain_factor, uploader,
                 audio_stream, current_db_level, recording_frames, count,
                 total_duration, saving_threads, threads_snapshot, log,
                 delivered, stops>>

\* stop_recording's last statement: write_session_end.
StopLogEnd ==
  /\ EnvUnchanged
  /\ pc = "stop_join"
  /\ join_i > Len(JoinList(threads_snapshot))
  /\ log' = Append(log, SessionEndRecord)
  /\ pc' = "stopped"
  /\ UNCHANGED <<file_format, rate, chunk_size, gain_factor, uploader, audio_stream,
                 current_db_level, recording_frames, count, total_duration,
                 saving_threads, tasks, threads_snapshot, join_i, delivered,
                 abandoned, stops>>

\* ------------------------------------------------------------------ _save
\* Mutant: every chunk counts as a full one.
DurationOf_Full(frames) == MaxChunkSize * CHUNK

\* duration_sec = len(frames) * self._chunk / self._rate, kept in samples.
DurationOf(frames) == Len(frames) * CHUNK

TaskVarsUnchanged ==
  UNCHANGED <<pc, file_format, rate, chunk_size, gain_factor, uploader, audio_stream,
              current_db_level, recording_frames, count, saving_threads,
              threads_snapshot, join_i, delivered, abandoned, stops,
              show_level_meter, call, logger, adder, api, sess>>

\* Mutant: the encode error is swallowed where it occurs and _save goes on.
AfterEncodeError_GoOn(task) == [task EXCEPT !.pc = "duration"]

\* What an exception in the encode step leaves of the task: the handler at the
\* end of _save logs the error and the thread ends.
AfterEncodeError(task) == [task EXCEPT !.pc = "failed"]

\* The encode step returned: the chunk file is on disk.
AfterEncode(task) == [task EXCEPT !.pc = "duration", !.encoded = TRUE]

\* The encode step (sf.write or _save_mp3) writes the file or raises.
SaveEncode(t) ==
  /\ t \in 1..Len(tasks)
  /\ tasks[t].pc = "encode"
  /\ \E ok \in BOOLEAN :
       tasks' = [tasks EXCEPT ![t] =
                   IF ok THEN AfterEncode(@) ELSE AfterEncodeError(@)]
  /\ UNCHANGED <<total_duration, log>>
  /\ TaskVarsUnchanged

\* Mutant: the total is overwritten, not added to.
AddDuration_Overwrite(total, duration_sec) == duration_sec

\* self._total_duration_sec += duration_sec
AddDuration(total, duration_sec) == total + duration_sec

\* Mutant: _save goes from the duration update straight to write_chunk.
NextAfterDuration_SkipUpload(has_uploader) == "log"

\* What follows the duration update: "if self._uploader:" the upload attempt,
\* otherwise write_chunk at once.
NextAfterDuration(has_uploader) == IF has_uploader THEN "upload" ELSE "log"

\* with self._save_lock: self._total_duration_sec += duration_sec
SaveDuration(t) ==
  /\ t \in 1..Len(tasks)
  /\ tasks[t].pc = "duration"
  /\ total_duration' = AddDuration(total_duration, DurationOf(tasks[t].frames))
  /\ tasks' = [tasks EXCEPT ![t] =
                 [@ EXCEPT !.duration = DurationOf(tasks[t].frames),
                           !.pc = NextAfterDuration(uploader)]]
  /\ UNCHANGED log
  /\ TaskVarsUnchanged

\* The object key upload_file returns.
ObjectKey(task) == <<SessionId, task.count>>

\* Mutant: the upload error reaches _save's outer handler.
AfterUploadError_Abort(task) == [task EXCEPT !.pc = "failed", !.upload_error = TRUE]

\* What a raising upload_file leaves of the task: the warning is logged and
\* _save goes on to the chunk record.
AfterUploadError(task) == [task EXCEPT !.pc = "log", !.upload_error = TRUE]

\* The upload step: upload_file returns the key or raises.
SaveUpload(t) ==
  /\ t \in 1..Len(tasks)
  /\ tasks[t].pc = "upload"
  /\ \E ok \in BOOLEAN :
       tasks' = [tasks EXCEPT ![t] =
                   IF ok THEN [@ EXCEPT !.s3_object_key = ObjectKey(tasks[t]),
                                        !.s3_uploaded = TRUE, !.pc = "log"]
                   ELSE AfterUploadError(@)]
  /\ UNCHANGED <<total_duration, log>>
  /\ TaskVarsUnchanged

\* write_chunk, then the thread ends.
SaveLog(t) ==
  /\ t \in 1..Len(tasks)
  /\ tasks[t].pc = "log"
  /\ log' = Append(log, ChunkRecord(t))
  /\ tasks' = [tasks EXCEPT ![t] = [@ EXCEPT !.pc = "done"]]
  /\ UNCHANGED total_duration
  /\ TaskVarsUnchanged

\* ------------------------------------------------------- application log
\* The main thread, as the author of a message.
MainThread == 0

\* The messages written so far through loguru's logger by the callback, the
\* save threads and stop_recording, each with its level and the thread that
\* wrote it: "Saving chunk" for every thread created, "Upload failed" and
\* "Error saving" from _save, "Microphone has been closed" at the end of
\* stop_recording.  stop_recording logs nothing else: the join loop does not
\* look at whether a join timed out.
AppLog ==
  {[level |-> "INFO", text |-> "Saving chunk", thread |-> t] :
     t \in 1..Len(tasks)}
  \cup {[level |-> "WARNING", text |-> "Upload failed", thread |-> t] :
          t \in {u \in 1..Len(tasks) : tasks[u].upload_error}}
  \cup {[level |-> "ERROR", text |-> "Error saving", thread |-> t] :
          t \in {u \in 1..Len(tasks) : tasks[u].pc = "failed"}}
  \cup (IF stops >= 2 \/ (stops = 1 /\ pc = "stopped")
        THEN {[level |-> "INFO", text |-> "Microphone has been closed",
               thread |-> MainThread]}
        ELSE {})

\* ------------------------------------------------------------------- Spec
Next ==
  \/ Construct
  \/ StartOpen
  \/ StartFail
  \/ StartLog
  \/ FillBuffer
  \/ StopClose
  \/ StopFlush
  \/ StopJoin
  \/ StopJoinTimeout
  \/ StopLogEnd
  \/ \E t \in 1..MaxChunks + 1 : SaveEncode(t)
  \/ \E t \in 1..MaxChunks + 1 : SaveDuration(t)
  \/ \E t \in 1..MaxChunks + 1 : SaveUpload(t)
  \/ \E t \in 1..MaxChunks + 1 : SaveLog(t)

Spec == Init /\ [][Next]_vars

\* The main thread keeps running once it is in stop_recording: each of its
\* steps is taken when it can be (a join returns within its 30 s at the
\* latest).  Nothing is assumed of the save threads, which may hang anywhere.
StopProgress ==
  /\ WF_vars(StopFlush)
  /\ WF_vars(StopJoin \/ StopJoinTimeout)
  /\ WF_vars(StopLogEnd)

LiveSpec == Spec /\ StopProgress

\* MicrophoneStream built directly, with either value of show_level_meter.
LevelInit ==
  /\ RecorderNew
  /\ show_level_meter \in BOOLEAN
  /\ call = NoCall
  /\ logger = NoLogger
  /\ adder = NoAdder
  /\ api = NoApi
  /\ sess = NoSess

\* The steps that can write or decide the level: the constructor, start, the
\* callback and the main thread's stop.  The save threads' steps are left
\* where they are (each leaves current_db_level, delivered, gain_factor and
\* show_level_meter unchanged), so stop gives every join up after its timeout.
LevelNext ==
  \/ Construct
  \/ StartOpen
  \/ StartFail
  \/ StartLog
  \/ FillBuffer
  \/ StopClose
  \/ StopFlush
  \/ StopJoinTimeout
  \/ StopLogEnd

LevelSpec == LevelInit /\ [][LevelNext]_vars

\* ------------------------------------------- the pure functions, called alone
RecorderVars ==
  <<pc, file_format, rate, chunk_size, gain_factor, uploader, audio_stream,
    current_db_level, recording_frames, count, total_duration, saving_threads,
    tasks, threads_snapshot, join_i, log, delivered, abandoned, stops,
    show_level_meter>>

SeqsUpTo(S, n) == UNION {[1..k -> S] : k \in 0..n}

\* A bytes object holding int16 samples; odd: one more byte follows the last
\* whole sample.
Bytes(samples, odd) == [samples |-> samples, odd |-> odd]

\* len(audio_data)
ByteLen(b) == 2 * Len(b.samples) + (IF b.odd THEN 1 ELSE 0)

\* np.frombuffer(audio_data, dtype=np.int16) raises ValueError on a byte
\* length that is not a multiple of 2.
FromBufferRaises(b) == b.odd

\* calculate_db_level on bytes: the except branch returns 0.
CalculateDbLevelBytes(b) ==
  IF FromBufferRaises(b) THEN 0 ELSE calculate_db_level(b.samples)

\* apply_gain on bytes: the set of values the call can return.  The test of
\* gain_factor comes first; the except branch returns the input.
ApplyGainBytes(b, g) ==
  IF g[1] # g[2] /\ FromBufferRaises(b) THEN {b}
  ELSE {Bytes(o, b.odd) : o \in apply_gain(b.samples, g)}

\* ---- build_object_key; a str is a sequence of characters
Replace(s, from, to) == [i \in 1..Len(s) |-> IF s[i] = from THEN to ELSE s[i]]

\* s.split(sep): the parts between separators, empty ones included.
RECURSIVE Split(_, _)
Split(s, sep) ==
  IF s = <<>> THEN << <<>> >>
  ELSE LET rest == Split(Tail(s), sep)
       IN  IF Head(s) = sep THEN << <<>> >> \o rest
           ELSE << <<Head(s)>> \o Head(rest) >> \o Tail(rest)

\* sep.join(parts)
RECURSIVE Join(_, _)
Join(parts, sep) ==
  IF parts = <<>> THEN <<>>
  ELSE IF Len(parts) = 1 THEN parts[1]
  ELSE parts[1] \o <<sep>> \o Join(Tail(parts), sep)

NonEmptyPart(part) == part # <<>>

\* Mutant: backslashes are left as they are.
normalize_segment_NoReplace(value) ==
  Join(SelectSeq(Split(value, "/"), NonEmptyPart), "/")

\* _normalize_segment
normalize_segment(value) ==
  Join(SelectSeq(Split(Replace(value, "\\", "/"), "/"), NonEmptyPart), "/")

NamePart(part) == part # <<>> /\ part # <<".">>

\* Mutant: the filename is used whole, directories included.
PathName_Whole(filename) == filename

\* Path(filename).name on a POSIX system: the last component, "" when the
\* path has none; "/" alone separates, empty and "." components are dropped.
PathName(filename) ==
  LET parts == SelectSeq(Split(filename, "/"), NamePart)
  IN  IF parts = <<>> THEN <<>> ELSE parts[Len(parts)]

\* Optional[str]
None == [is_none |-> TRUE, str |-> <<>>]
Some(s) == [is_none |-> FALSE, str |-> s]

\* "if conversation_id:" is false for None and for "".
Truthy(opt) == ~opt.is_none /\ opt.str # <<>>

build_object_key(filename, session_id, conversation_id, prefix) ==
  LET parts0 == <<>>
      parts1 == IF prefix # <<>> /\ normalize_segment(prefix) # <<>>
                THEN Append(parts0, normalize_segment(prefix)) ELSE parts0
      parts2 == IF Truthy(conversation_id)
                   /\ normalize_segment(conversation_id.str) # <<>>
                THEN Append(parts1, normalize_segment(conversation_id.str))
                ELSE parts1
      parts3 == Append(parts2, normalize_segment(session_id))
      parts4 == Append(parts3, PathName(filename))
  IN  Join(parts4, "/")

\* ---- the calls tried
LevelSamples == {-300, 0, 1, 300}

\* One sample of amplitude 1 in a long silent buffer: its level before the
\* clamp is negative.
QuietBuffer == [i \in 1..1000 |-> IF i = 1 THEN 1 ELSE 0]

\* Buffers at positive and at negative full scale.
FullScaleBuffers == {<<32767>>, <<-32768>>}

LevelBuffers == SeqsUpTo(LevelSamples, MaxSamples) \cup FullScaleBuffers
                  \cup {QuietBuffer}

GainSamples == {-32768, -30000, 0, 3, 30000}
PureGains == {<<1, 1>>, <<3, 2>>, <<2, 1>>, <<1, 2>>, <<0, 1>>, <<-1, 1>>}

KeyChars == {"a", "/", "\\"}

\* The two calls of the tests: 'a/f', 'S', and 'a/f', 'S', 'G', 'P'.
ExampleKeyArgs ==
  {<< <<"a", "/", "f">>, <<"S">>, None, <<>> >>,
   << <<"a", "/", "f">>, <<"S">>, Some(<<"G">>), <<"P">> >>}

KeyStrings == SeqsUpTo(KeyChars, MaxStrLen)

\* Every filename with every session_id, with and without a conversation_id
\* and a prefix; every conversation_id with every prefix; the examples.
KeyArgs ==
  {<<filename, session_id, conversation_id, prefix>> :
     filename \in KeyStrings, session_id \in KeyStrings,
     conversation_id \in {None, Some(<<"a">>)}, prefix \in {<<>>, <<"a">>}}
  \cup {<< <<"a">>, <<"a">>, conversation_id, prefix >> :
          conversation_id \in {None} \cup {Some(c) : c \in KeyStrings},
          prefix \in KeyStrings}
  \cup ExampleKeyArgs

\* ---- S3Uploader.check_bucket
\* What self._client.head_bucket can do: return, or raise.  ClientError and
\* EndpointConnectionError are botocore's (both derive from Exception);
\* KeyboardInterrupt is raised in the main thread by Ctrl-C during the request.
ProbeOutcomes == {"returns", "ClientError", "EndpointConnectionError", "KeyboardInterrupt"}

\* The classes derived from Exception; KeyboardInterrupt derives from
\* BaseException alone.
ExceptionSubclasses ==
  {"ClientError", "EndpointConnectionError", "RuntimeError", "OSError",
   "LibsndfileError", "CouldntEncodeError"}

\* Mutant: the handler is "except botocore.exceptions.ClientError".
CaughtByHandler_ClientError(raised) == raised = "ClientError"

\* "except Exception" catches what derives from Exception.
CaughtByHandler(raised) == raised \in ExceptionSubclasses

\* check_bucket: the one request it makes, and either the value it returns or
\* the exception that leaves it.
check_bucket(probe) ==
  [requests |-> <<"head_bucket">>,
   value    |-> IF probe = "returns" THEN "True"
                ELSE IF CaughtByHandler(probe) THEN "False"
                ELSE Null,
   raised   |-> IF probe = "returns" \/ CaughtByHandler(probe) THEN Null ELSE probe]

\* ---- _save_mp3 and _save_mp3_with_ffmpeg
\* What the encoders and the file system do during one call: whether pydub
\* was imported and what its export does; whether the temporary file can be
\* created and written; what running ffmpeg does; what unlink() does.
Mp3Envs ==
  [pydub  : {"unavailable", "returns", "raises"},
   tmp    : {"written", "create_raises", "write_raises"},
   ffmpeg : {"returns", "missing", "error"},
   unlink : {"returns", "raises"}]

NoEncoderMessage == "MP3 encoding requires either 'pydub' package or 'ffmpeg'"
FfmpegFailedMessage == "ffmpeg MP3 encoding failed"

NoError == [class |-> Null, message |-> Null]

\* _save_mp3_with_ffmpeg: the paths entered, the exception that leaves the
\* call, whether the mp3 file was written and the temporary files left behind.
\* The "with NamedTemporaryFile(delete=False)" block that creates and writes
\* the file stands before the try whose finally clause unlinks it.
save_mp3_with_ffmpeg(env) ==
  LET created == env.tmp # "create_raises"
      in_try  == env.tmp = "written"
      unlinked == in_try /\ env.unlink = "returns"
  IN  [tried   |-> <<"ffmpeg">>,
       raised  |-> IF env.tmp = "create_raises"
                   THEN [class |-> "OSError", message |-> Null]
                   ELSE IF env.tmp = "write_raises"
                   THEN [class |-> "LibsndfileError", message |-> Null]
                   ELSE IF env.ffmpeg = "missing"
                   THEN [class |-> "RuntimeError", message |-> NoEncoderMessage]
                   ELSE IF env.ffmpeg = "error"
                   THEN [class |-> "RuntimeError", message |-> FfmpegFailedMessage]
                   ELSE NoError,
       written |-> in_try /\ env.ffmpeg = "returns",
       tmp_files |-> IF created /\ ~unlinked THEN 1 ELSE 0]

\* Mutant: the fallback is taken only when pydub is not installed; an error of
\* pydub's export leaves _save_mp3.
FallsBack_IfUnavailable(pydub) == pydub = "unavailable"

\* _save_mp3 goes on to ffmpeg when PYDUB_AVAILABLE is false and when the
\* pydub block raised (except Exception: logged at debug level).
FallsBack(pydub) == pydub # "returns"

\* _save_mp3
save_mp3(env) ==
  LET first == IF env.pydub = "unavailable" THEN <<>> ELSE <<"pydub">>
      second == save_mp3_with_ffmpeg(env)
  IN  IF FallsBack(env.pydub)
      THEN [second EXCEPT !.tried = first \o @]
      ELSE [tried   |-> first,
            raised  |-> IF env.pydub = "returns" THEN NoError
                        ELSE [class |-> "CouldntEncodeError", message |-> Null],
            written |-> env.pydub = "returns",
            tmp_files |-> 0]

\* ---- the chunk file's path (_save, lines 404-405)
\* str(n) for n >= 0, as its decimal digits.
RECURSIVE Digits(_)
DigitChar(d) == <<"0", "1", "2", "3", "4", "5", "6", "7", "8", "9">>[d + 1]

Digits(n) ==
  IF n < 10 THEN <<DigitChar(n)>>
  ELSE Append(Digits(n \div 10), DigitChar(n % 10))

\* Mutant: the index is cut to its last two digits.
Format02_LastTwo(n) == <<DigitChar((n \div 10) % 10), DigitChar(n % 10)>>

\* f'{count:02}': at least two digits, zero-padded on the left.
Format02(n) == IF n < 10 THEN <<"0">> \o Digits(n) ELSE Digits(n)

\* output_dir with a trailing slash ensured.
WithSlash(output_dir) ==
  IF output_dir # <<>> /\ output_dir[Len(output_dir)] = "/" THEN output_dir
  ELSE output_dir \o <<"/">>

\* filename = f'{output_dir}{self._session_id}_{count:02}.{self._file_format}'
chunk_filename(output_dir, session_id, cnt, fmt) ==
  WithSlash(output_dir) \o session_id \o <<"_">> \o Format02(cnt)
    \o <<".">> \o fmt

\* Chunk indices around the widths of one, two, three and four digits.
ChunkIndices == {1, 2, 9, 10, 11, 19, 91, 99, 100, 101, 110, 199, 1000, 1001}

OutputDirs == {<<"a">>, <<"a", "/">>, <<"a", "/", "b">>}
SessionIds == {<<"S">>, <<"S", "_", "1">>}
FileFormats == {<<"f">>, <<"m", "p", "3">>}

FilenameArgs ==
  {<<dir, sid, cnt, fmt>> :
     dir \in OutputDirs, sid \in SessionIds, cnt \in ChunkIndices,
     fmt \in FileFormats}

NewCall(fn, args) == [fn |-> fn, args |-> args, result |-> <<>>, returned |-> FALSE]

PureCalls ==
  {NewCall("calculate_db_level", <<Bytes(a, odd)>>) :
     a \in LevelBuffers, odd \in BOOLEAN}
  \cup {NewCall("apply_gain", <<Bytes(a, odd), g>>) :
           a \in SeqsUpTo(GainSamples, MaxSamples), odd \in BOOLEAN, g \in PureGains}
  \cup {NewCall("build_object_key", a) : a \in KeyArgs}
  \cup {NewCall("check_bucket", <<probe>>) : probe \in ProbeOutcomes}
  \cup {NewCall("_save_mp3", <<env>>) : env \in Mp3Envs}
  \cup {NewCall("chunk_filename", a) : a \in FilenameArgs}
  \cup {NewCall("_save_mp3_with_ffmpeg", <<env>>) : env \in Mp3Envs}

PureInit ==
  /\ RecorderNew
  /\ show_level_meter = TRUE
  /\ call \in PureCalls
  /\ logger = NoLogger
  /\ adder = NoAdder
  /\ api = NoApi
  /\ sess = NoSess

CallCalculateDbLevel ==
  /\ call.fn = "calculate_db_level"
  /\ ~call.returned
  /\ call' = [call EXCEPT !.result = CalculateDbLevelBytes(call.args[1]),
                          !.returned = TRUE]
  /\ UNCHANGED <<RecorderVars, logger, adder, api, sess>>

CallApplyGain ==
  /\ call.fn = "apply_gain"
  /\ ~call.returned
  /\ \E out \in ApplyGainBytes(call.args[1], call.args[2]) :
       call' = [call EXCEPT !.result = out, !.returned = TRUE]
  /\ UNCHANGED <<RecorderVars, logger, adder, api, sess>>

CallBuildObjectKey ==
  /\ call.fn = "build_object_key"
  /\ ~call.returned
  /\ call' = [call EXCEPT
                !.result = build_object_key(call.args[1], call.args[2],
                                            call.args[3], call.args[4]),
                !.returned = TRUE]
  /\ UNCHANGED <<RecorderVars, logger, adder, api, sess>>

CallCheckBucket ==
  /\ call.fn = "check_bucket"
  /\ ~call.returned
  /\ call' = [call EXCEPT !.result = check_bucket(call.args[1]),
                          !.returned = TRUE]
  /\ UNCHANGED <<RecorderVars, logger, adder, api, sess>>

CallSaveMp3 ==
  /\ call.fn = "_save_mp3"
  /\ ~call.returned
  /\ call' = [call EXCEPT !.result = save_mp3(call.args[1]), !.returned = TRUE]
  /\ UNCHANGED <<RecorderVars, logger, adder, api, sess>>

CallSaveMp3WithFfmpeg ==
  /\ call.fn = "_save_mp3_with_ffmpeg"
  /\ ~call.returned
  /\ call' = [call EXCEPT !.result = save_mp3_with_ffmpeg(call.args[1]),
                          !.returned = TRUE]
  /\ UNCHANGED <<RecorderVars, logger, adder, api, sess>>

CallChunkFilename ==
  /\ call.fn = "chunk_filename"
  /\ ~call.returned
  /\ call' = [call EXCEPT
                !.result = chunk_filename(call.args[1], call.args[2],
                                          call.args[3], call.args[4]),
                !.returned = TRUE]
  /\ UNCHANGED <<RecorderVars, logger, adder, api, sess>>

PureNext ==
  \/ CallCalculateDbLevel
  \/ CallApplyGain
  \/ CallBuildObjectKey
  \/ CallCheckBucket
  \/ CallSaveMp3
  \/ CallSaveMp3WithFfmpeg
  \/ CallChunkFilename

PureSpec == PureInit /\ [][PureNext]_vars

Returned(fn) == call.fn = fn /\ call.returned

\* --------------------------------------- RecordingLogger, write by write
\* Thread 1 is the orchestrator: write_session_start, later write_session_end.
\* Every other thread is a save thread: one write_chunk.
Writers == 1..MaxWriters

CallsOf(w) == IF w = 1 THEN <<"session_start", "session_end">> ELSE <<"chunk">>

\* line = json.dumps(record) + "\n", as its two parts.
JsonOf(w, k) == [kind |-> "json", rec |-> <<w, k, CallsOf(w)[k]>>]
NewlineOf(w, k) == [kind |-> "newline", rec |-> <<w, k, CallsOf(w)[k]>>]

\* The log file of an earlier run: the file is opened in append mode and may
\* hold lines already.
OldFile == <<[kind |-> "json", rec |-> <<0, 1, "session_end">>],
             [kind |-> "newline", rec |-> <<0, 1, "session_end">>]>>

LogInit ==
  /\ RecorderNew
  /\ show_level_meter = TRUE
  /\ call = NoCall
  /\ \E file \in {<<>>, OldFile} :
       logger = [lock |-> 0, file |-> file,
                 writers |-> [w \in Writers |-> [pc |-> "lock", k |-> 1]]]
  /\ adder = NoAdder
  /\ api = NoApi
  /\ sess = NoSess

\* Mutant: _append writes without taking self._lock.
LockAvailable_Always(lock) == TRUE

\* "with self._lock:" can be entered.
LockAvailable(lock) == lock = 0

LogUnchanged == UNCHANGED <<RecorderVars, call, adder, api, sess>>

\* _append: with self._lock
LogLock(w) ==
  /\ logger.writers[w].pc = "lock"
  /\ LockAvailable(logger.lock)
  /\ logger' = [logger EXCEPT !.lock = w, !.writers[w].pc = "write"]
  /\ LogUnchanged

\* open("a") and fh.write(line): the text of the record reaches the end of the
\* file; what was in the file stays.
LogWriteJson(w) ==
  /\ logger.writers[w].pc = "write"
  /\ logger' = [logger EXCEPT
                  !.file = Append(@, JsonOf(w, logger.writers[w].k)),
                  !.writers[w].pc = "newline"]
  /\ LogUnchanged

\* The end of the line reaches the file (a line may take more than one write).
LogWriteNewline(w) ==
  /\ logger.writers[w].pc = "newline"
  /\ logger' = [logger EXCEPT
                  !.file = Append(@, NewlineOf(w, logger.writers[w].k)),
                  !.writers[w].pc = "unlock"]
  /\ LogUnchanged

\* The file is closed, the lock released and the write_* call returns; the
\* thread goes on to its next call, if it has one.
LogUnlock(w) ==
  /\ logger.writers[w].pc = "unlock"
  /\ logger' = [logger EXCEPT
                  !.lock = 0,
                  !.writers[w] =
                    IF logger.writers[w].k < Len(CallsOf(w))
                    THEN [pc |-> "lock", k |-> logger.writers[w].k + 1]
                    ELSE [pc |-> "done", k |-> logger.writers[w].k + 1]]
  /\ LogUnchanged

LogNext ==
  \/ \E w \in Writers : LogLock(w)
  \/ \E w \in Writers : LogWriteJson(w)
  \/ \E w \in Writers : LogWriteNewline(w)
  \/ \E w \in Writers : LogUnlock(w)

LogSpec == LogInit /\ [][LogNext]_vars

\* ------------------------------- _save's update of the total, load by store
\* The save threads that run at once.
Savers == 1..MaxSavers

\* len(frames) of thread w's chunk: every thread another length, so that the
\* sums tell the threads apart.
FramesOf(w) == w

\* duration_sec of thread w, in samples.
DurationSec(w) == FramesOf(w) * CHUNK

TotalInit ==
  /\ RecorderNew
  /\ show_level_meter = TRUE
  /\ call = NoCall
  /\ logger = NoLogger
  /\ adder = [lock |-> 0, total |-> 0,
              threads |-> [w \in Savers |-> [pc |-> "encode", loaded |-> 0]]]
  /\ api = NoApi
  /\ sess = NoSess

TotalUnchanged == UNCHANGED <<RecorderVars, call, logger, api, sess>>

\* The encode step of thread w returns or raises; raising skips the update.
AddEncode(w) ==
  /\ adder.threads[w].pc = "encode"
  /\ \E ok \in BOOLEAN :
       adder' = [adder EXCEPT !.threads[w].pc = IF ok THEN "acquire" ELSE "failed"]
  /\ TotalUnchanged

\* Mutant: the "+=" is done without self._save_lock.
SaveLockFree_Always(lock) == TRUE

\* "with self._save_lock:" can be entered.
SaveLockFree(lock) == lock = 0

\* with self._save_lock: entered.
AddAcquire(w) ==
  /\ adder.threads[w].pc = "acquire"
  /\ SaveLockFree(adder.lock)
  /\ adder' = [adder EXCEPT !.lock = w, !.threads[w].pc = "load"]
  /\ TotalUnchanged

\* self._total_duration_sec += duration_sec, first half: the attribute is read.
AddLoad(w) ==
  /\ adder.threads[w].pc = "load"
  /\ adder' = [adder EXCEPT !.threads[w].loaded = adder.total,
                            !.threads[w].pc = "store"]
  /\ TotalUnchanged

\* ... second half: the sum of the value read and duration_sec is stored.
AddStore(w) ==
  /\ adder.threads[w].pc = "store"
  /\ adder' = [adder EXCEPT
                 !.total = AddDuration(adder.threads[w].loaded, DurationSec(w)),
                 !.threads[w].pc = "release"]
  /\ TotalUnchanged

\* The with block is left; the thread goes on to upload and record.
AddRelease(w) ==
  /\ adder.threads[w].pc = "release"
  /\ adder' = [adder EXCEPT !.lock = IF adder.lock = w THEN 0 ELSE adder.lock,
                            !.threads[w].pc = "after"]
  /\ TotalUnchanged

TotalNext ==
  \/ \E w \in Savers : AddEncode(w)
  \/ \E w \in Savers : AddAcquire(w)
  \/ \E w \in Savers : AddLoad(w)
  \/ \E w \in Savers : AddStore(w)
  \/ \E w \in Savers : AddRelease(w)

TotalSpec == TotalInit /\ [][TotalNext]_vars

\* ------------- MicrophoneStream statement by statement, under any calls
\* A caller that calls start_recording and stop_recording in some order, one
\* call after the other; every stream opened has its own callback thread, and
\* the statements of _fill_buffer and of stop_recording interleave as the
\* threads are scheduled.  Lists are objects on a heap, named by their index,
\* and buffer k is the number k.  The save threads are followed up to their
\* creation, stop_recording up to the last chunk's thread.
ApiChunkSize == 2

\* The caller's sequences of calls: the record command's (start, stop), a stop
\* repeated, a start repeated while running, and a start after the stop.
CallScripts ==
  {<<"start", "stop">>,
   <<"start", "stop", "stop">>,
   <<"start", "start", "stop">>,
   <<"start", "stop", "start">>}

ApiNew ==
  [main |-> "ready",          \* the main thread: between calls, or the statement it is at
   saving_frames |-> 0,       \* stop_recording's local saving_frames
   streams |-> <<>>,          \* the streams opened so far: "open" or "closed"
   audio_stream |-> 0,        \* self._audio_stream: a stream, or 0 for None
   heap |-> << <<>> >>,       \* the list objects
   recording_frames |-> 1,    \* self._recording_frames
   count |-> 0,               \* self._count
   cb |-> <<>>,               \* per stream: its callback's statement, local, has it run
   threads |-> <<>>,          \* the arguments of the save threads created
   delivered |-> 0,           \* buffers given to _fill_buffer so far
   calls |-> <<>>,            \* the calls the caller has still to make
   stops |-> 0,               \* calls of stop_recording so far
   session_starts |-> 0]      \* session-start records written

ApiInit ==
  /\ RecorderNew
  /\ show_level_meter = TRUE
  /\ call = NoCall
  /\ logger = NoLogger
  /\ adder = NoAdder
  /\ \E script \in CallScripts : api = [ApiNew EXCEPT !.calls = script]
  /\ sess = NoSess

ApiUnchanged == UNCHANGED <<RecorderVars, call, logger, adder, sess>>

\* start_recording up to the return of open().  Nothing in it looks at
\* whether a stream is already open or the session was stopped: the new
\* stream replaces self._audio_stream, and a stream that was open stays open
\* with no reference left to stop it.
ApiStartOpen ==
  /\ api.main = "ready"
  /\ api.calls # <<>> /\ Head(api.calls) = "start"
  /\ api' = [api EXCEPT !.calls = Tail(@),
                        !.streams = Append(@, "open"),
                        !.cb = Append(@, [pc |-> "idle", saving_frames |-> 0,
                                           ran |-> FALSE]),
                        !.audio_stream = Len(api.streams) + 1,
                        !.main = "start_log"]
  /\ ApiUnchanged

\* start_recording's last statement: write_session_start.
ApiStartLog ==
  /\ api.main = "start_log"
  /\ api' = [api EXCEPT !.session_starts = @ + 1, !.main = "ready"]
  /\ ApiUnchanged

\* saving_frames = self._recording_frames[:]: a new list with the same items.
SliceCopy(a) ==
  [heap |-> Append(a.heap, CopyFrames(a.heap[a.recording_frames])),
   ref  |-> Len(a.heap) + 1]

\* Mutant: the accumulator is left as it is after the copy.
NewAccumulator_Kept(a) == [heap |-> a.heap, ref |-> a.recording_frames]

\* self._recording_frames = []: a new, empty list.
NewAccumulator(a) == [heap |-> Append(a.heap, <<>>), ref |-> Len(a.heap) + 1]

\* _fill_buffer of stream s, line 356: the buffer is appended to the list
\* self._recording_frames refers to.
ApiCbAppend(s) ==
  /\ s \in 1..Len(api.streams)
  /\ api.streams[s] = "open"
  /\ api.cb[s].pc = "idle"
  /\ api.delivered < MaxDeliveries
  /\ api' = [api EXCEPT !.delivered = @ + 1,
                        !.heap[api.recording_frames] = Append(@, api.delivered + 1),
                        !.cb[s].ran = TRUE,
                        !.cb[s].pc = "test"]
  /\ ApiUnchanged

\* line 357: if len(self._recording_frames) >= self._chunk_size
ApiCbTest(s) ==
  /\ s \in 1..Len(api.streams)
  /\ api.cb[s].pc = "test"
  /\ api' = [api EXCEPT !.cb[s].pc =
                IF FlushNeeded(api.heap[api.recording_frames], ApiChunkSize)
                THEN "copy" ELSE "idle"]
  /\ ApiUnchanged

\* line 358
ApiCbCopy(s) ==
  /\ s \in 1..Len(api.streams)
  /\ api.cb[s].pc = "copy"
  /\ api' = [api EXCEPT !.heap = SliceCopy(api).heap,
                        !.cb[s].saving_frames = SliceCopy(api).ref,
                        !.cb[s].pc = "reset"]
  /\ ApiUnchanged

\* line 359
ApiCbReset(s) ==
  /\ s \in 1..Len(api.streams)
  /\ api.cb[s].pc = "reset"
  /\ api' = [api EXCEPT !.heap = NewAccumulator(api).heap,
                        !.recording_frames = NewAccumulator(api).ref,
                        !.cb[s].pc = "count"]
  /\ ApiUnchanged

\* line 360
ApiCbCount(s) ==
  /\ s \in 1..Len(api.streams)
  /\ api.cb[s].pc = "count"
  /\ api' = [api EXCEPT !.count = NextCount(@), !.cb[s].pc = "thread"]
  /\ ApiUnchanged

\* line 362: the thread gets saving_frames and self._count as it is now.
ApiCbThread(s) ==
  /\ s \in 1..Len(api.streams)
  /\ api.cb[s].pc = "thread"
  /\ api' = [api EXCEPT
               !.threads = Append(@, [frames |-> api.cb[s].saving_frames,
                                      count |-> api.count]),
               !.cb[s].saving_frames = 0,
               !.cb[s].pc = "idle"]
  /\ ApiUnchanged

\* stop_stream() returns once the callback of that stream has returned.
StreamStoppable(a) ==
  (a.audio_stream # 0 /\ a.streams[a.audio_stream] = "open") =>
    a.cb[a.audio_stream].pc = "idle"

\* stop_recording, lines 303-307: the stream self._audio_stream refers to is
\* stopped and closed; a stream no longer referred to is not.
ApiStopClose ==
  /\ api.main = "ready"
  /\ api.calls # <<>> /\ Head(api.calls) = "stop"
  /\ StreamStoppable(api)
  /\ api' = [api EXCEPT
               !.calls = Tail(@),
               !.stops = @ + 1,
               !.streams = IF api.audio_stream = 0 THEN @
                           ELSE [@ EXCEPT ![api.audio_stream] = "closed"],
               !.main = "stop_test"]
  /\ ApiUnchanged

\* line 309: if self._recording_frames
ApiStopTest ==
  /\ api.main = "stop_test"
  /\ api' = [api EXCEPT !.main =
                IF api.heap[api.recording_frames] # <<>> THEN "stop_copy"
                ELSE "ready"]
  /\ ApiUnchanged

\* line 310
ApiStopCopy ==
  /\ api.main = "stop_copy"
  /\ api' = [api EXCEPT !.heap = SliceCopy(api).heap,
                        !.saving_frames = SliceCopy(api).ref,
                        !.main = "stop_reset"]
  /\ ApiUnchanged

\* line 311
ApiStopReset ==
  /\ api.main = "stop_reset"
  /\ api' = [api EXCEPT !.heap = NewAccumulator(api).heap,
                        !.recording_frames = NewAccumulator(api).ref,
                        !.main = "stop_count"]
  /\ ApiUnchanged

\* line 312
ApiStopCount ==
  /\ api.main = "stop_count"
  /\ api' = [api EXCEPT !.count = NextCount(@), !.main = "stop_thread"]
  /\ ApiUnchanged

\* line 314
ApiStopThread ==
  /\ api.main = "stop_thread"
  /\ api' = [api EXCEPT
               !.threads = Append(@, [frames |-> api.saving_frames,
                                      count |-> api.count]),
               !.saving_frames = 0,
               !.main = "ready"]
  /\ ApiUnchanged

ApiNext ==
  \/ ApiStartOpen
  \/ ApiStartLog
  \/ \E s \in 1..Len(api.streams) : ApiCbAppend(s)
  \/ \E s \in 1..Len(api.streams) : ApiCbTest(s)
  \/ \E s \in 1..Len(api.streams) : ApiCbCopy(s)
  \/ \E s \in 1..Len(api.streams) : ApiCbReset(s)
  \/ \E s \in 1..Len(api.streams) : ApiCbCount(s)
  \/ \E s \in 1..Len(api.streams) : ApiCbThread(s)
  \/ ApiStopClose
  \/ ApiStopTest
  \/ ApiStopCopy
  \/ ApiStopReset
  \/ ApiStopCount
  \/ ApiStopThread

ApiSpec == ApiInit /\ [][ApiNext]_vars

\* ---------------------------- MicrophoneStream and the clock it reads
\* datetime.datetime.now() read where the code reads it: in the constructor
\* (through _build_timestamp, for the session id) and in
\* _create_chunk_saving_thread (created_at, handed to _save as start_time).
\* The clock counts the seconds DATETIME_FORMAT shows.  The records written
\* to the log are kept as a set: their order is not looked at here.
DeviceIds == {Null, "3"}
TimestampFormats == {"{ts}", "{ts}_dev{device_id}"}

\* _build_timestamp: self._timestamp_format.format(ts=..., device_id=dev), as
\* the values the format shows.
build_timestamp(self, dt, device_id) ==
  LET dev == IF device_id # Null THEN device_id
             ELSE IF self.device_id # Null THEN self.device_id ELSE "default"
  IN  IF self.timestamp_format = "{ts}" THEN <<dt>> ELSE <<dt, dev>>

SessInit ==
  /\ RecorderNew
  /\ show_level_meter = TRUE
  /\ call = NoCall
  /\ logger = NoLogger
  /\ adder = NoAdder
  /\ api = NoApi
  /\ \E dev \in DeviceIds, fmt \in TimestampFormats :
       sess = [pc |-> "new", clock |-> 0, device_id |-> dev,
               timestamp_format |-> fmt, session_id |-> <<>>, count |-> 0,
               threads |-> <<>>, records |-> {}, files |-> {}, stops |-> 0]

SessUnchanged == UNCHANGED <<RecorderVars, call, logger, adder, api>>

\* A second passes.
SessTick ==
  /\ sess.pc # "none"
  /\ sess.clock < MaxTicks
  /\ sess' = [sess EXCEPT !.clock = @ + 1]
  /\ SessUnchanged

\* __init__, line 207: the one assignment to self._session_id.
SessConstruct ==
  /\ sess.pc = "new"
  /\ sess' = [sess EXCEPT
                !.session_id = build_timestamp(sess, sess.clock, sess.device_id),
                !.pc = "idle"]
  /\ SessUnchanged

\* start_recording: the session-start record carries self._session_id.
SessStart ==
  /\ sess.pc \in {"idle", "stopped"}
  /\ sess.stops < MaxStops
  /\ sess' = [sess EXCEPT
                !.records = @ \cup {[event |-> "start", chunk_index |-> 0,
                                      session_id |-> sess.session_id]},
                !.pc = "running"]
  /\ SessUnchanged

\* _create_chunk_saving_thread(saving_frames, count): created_at is a new
\* timestamp, read from the clock now.
SessNewThread(self) ==
  [self EXCEPT
     !.count = @ + 1,
     !.threads = Append(@, [count |-> self.count + 1,
                            start_time |-> build_timestamp(self, self.clock, Null),
                            saved |-> FALSE])]

\* A hand-off by _fill_buffer.
SessHandoff ==
  /\ sess.pc = "running"
  /\ sess.count < MaxChunks
  /\ sess' = SessNewThread(sess)
  /\ SessUnchanged

\* Mutant: the file is named after the start_time argument of _save.
FileSessionId_StartTime(session_id, start_time) == start_time

\* The id in the file name of line 405: self._session_id; the start_time
\* argument is not used.
FileSessionId(session_id, start_time) == session_id

\* _save of thread t: the file name and the chunk record.
SessSave(t) ==
  /\ t \in 1..Len(sess.threads)
  /\ ~sess.threads[t].saved
  /\ sess' = [sess EXCEPT
                !.files = @ \cup {[session_id |->
                                     FileSessionId(sess.session_id,
                                                   sess.threads[t].start_time),
                                   count |-> sess.threads[t].count]},
                !.records = @ \cup {[event |-> "chunk",
                                      chunk_index |-> sess.threads[t].count,
                                      session_id |-> sess.session_id]},
                !.threads[t].saved = TRUE]
  /\ SessUnchanged

\* stop_recording: the remaining frames, if any, become a last chunk; the
\* session-end record carries self._session_id.
SessStop ==
  /\ sess.pc \in {"idle", "running", "stopped"}
  /\ sess.stops < MaxStops
  /\ \E flush \in BOOLEAN :
       /\ flush => (sess.pc = "running" /\ sess.count < MaxChunks + 1)
       /\ LET flushed == IF flush THEN SessNewThread(sess) ELSE sess
          IN  sess' = [flushed EXCEPT
                         !.records = @ \cup {[event |-> "end", chunk_index |-> 0,
                                               session_id |-> sess.session_id]},
                         !.stops = @ + 1,
                         !.pc = "stopped"]
  /\ SessUnchanged

SessNext ==
  \/ SessTick
  \/ SessConstruct
  \/ SessStart
  \/ SessHandoff
  \/ \E t \in 1..MaxChunks + 1 : SessSave(t)
  \/ SessStop

SessSpec == SessInit /\ [][SessNext]_vars

\* ----------------------------------------------------------- log helpers
IsStart(r) == r.type = "session" /\ r.event = "start"
IsEnd(r) == r.type = "session" /\ r.event = "end"
IsChunk(r) == r.type = "chunk"

StartLines == {i \in 1..Len(log) : IsStart(log[i])}
EndLines == {i \in 1..Len(log) : IsEnd(log[i])}
ChunkLines == {i \in 1..Len(log) : IsChunk(log[i])}

\* stop_recording has done its flush at least once.
StopFlushed == stops >= 2 \/ (stops = 1 /\ pc # "stop_flush")

RECURSIVE FlatFrames(_)
FlatFrames(ts) == IF ts = <<>> THEN <<>> ELSE Head(ts).frames \o FlatFrames(Tail(ts))

\* ------------------------------------------------------------------- C1
\* C1: the session-start record precedes, in log order, every chunk record of
\* the same session_id, in every interleaving of start_recording, _fill_buffer
\* and the save threads.
C1_StartPrecedesChunks ==
  \A j \in ChunkLines :
    \E i \in StartLines : i < j /\ log[i].session_id = log[j].session_id

\* ------------------------------------------------------------------- C2
\* C2 as stated: no chunk record of the session follows its session-end record.
C2_EndFollowsChunks ==
  \A i \in EndLines : \A j \in ChunkLines : j < i

\* C2, amended: a chunk record follows a session-end record only when its save
\* thread was abandoned by a join that timed out.
C2_ChunkAfterEndOnlyIfAbandoned ==
  \A i \in EndLines : \A j \in ChunkLines :
    i < j => \E t \in abandoned : tasks[t].count = log[j].chunk_index

\* A stop that joined every save thread: the chunk records are all in the log,
\* before session-end.
C2_Witness ==
  /\ pc = "stopped"
  /\ abandoned = {}
  /\ Cardinality(ChunkLines) = 2
  /\ \A i \in EndLines : \A j \in ChunkLines : j < i

\* ------------------------------------------------------------------- C3
\* C3: stop is idempotent: on a session that was started and stopped, a
\* second stop_recording appends no second session-end record, so the log
\* holds at most one per session.
C3_OneSessionEnd == audio_stream = "closed" => Cardinality(EndLines) <= 1

\* ------------------------------------------------------------------- C4
\* C4: the number of chunks handed off is floor(delivered / chunk_size), plus
\* one short chunk once stop has flushed a non-empty remainder.
C4_ChunkCount ==
  /\ Len(tasks) = count
  /\ (pc \notin {"new", "config_error"}) =>
       count = (Len(delivered) \div chunk_size)
               + (IF StopFlushed /\ Len(delivered) % chunk_size # 0 THEN 1 ELSE 0)

\* A full chunk, then stop has flushed a remainder shorter than the threshold.
C4_Witness ==
  /\ pc = "stopped"
  /\ Len(delivered) % chunk_size # 0
  /\ Len(delivered) \div chunk_size >= 1

\* ------------------------------------------------------------------- C5
\* C5: the chunk indices handed to save threads are exactly 1..count, each
\* hand-off taking the previous index plus one; chunk records carry distinct
\* indices of that range and session-end reports count as chunk_count.
C5_ChunkIndices ==
  /\ \A t \in 1..Len(tasks) : tasks[t].count = t
  /\ {tasks[t].count : t \in 1..Len(tasks)} = 1..count
  /\ \A i \in ChunkLines : log[i].chunk_index \in 1..count
  /\ \A i, j \in ChunkLines : log[i].chunk_index = log[j].chunk_index => i = j
  /\ \A i \in EndLines : log[i].chunk_count = count

\* Two chunks whose records were written against index order, then session-end.
C5_Witness ==
  /\ pc = "stopped"
  /\ count = 2
  /\ \E i, j \in ChunkLines : i < j /\ log[i].chunk_index > log[j].chunk_index

\* ------------------------------------------------------------------- C6
RECURSIVE SumLogged(_)
SumLogged(lines) ==
  IF lines = {} THEN 0
  ELSE LET j == CHOOSE x \in lines : TRUE
       IN  log[j].duration_sec + SumLogged(lines \ {j})

RECURSIVE SumDurations(_)
SumDurations(ts) ==
  IF ts = {} THEN 0
  ELSE LET t == CHOOSE x \in ts : TRUE
       IN  tasks[t].duration + SumDurations(ts \ {t})

HasRecord(t) == \E j \in ChunkLines : log[j].chunk_index = tasks[t].count

C7_NoLossNoReorder ==
  /\ \A t \in 1..Len(tasks) : tasks[t].count = t
  /\ FlatFrames(tasks) \o recording_frames = delivered
  /\ StopFlushed => recording_frames = <<>>

\* A full chunk and gain applied, then the short chunk flushed by stop.
C7_Witness ==
  /\ pc = "stopped"
  /\ gain_factor # <<1, 1>>
  /\ Len(tasks) = 2
  /\ Len(tasks[1].frames) = chunk_size
  /\ Len(tasks[2].frames) < chunk_size

\* ------------------------------------------------------------------- C8
NonTaskVars ==
  <<pc, file_format, rate, chunk_size, gain_factor, uploader, audio_stream,
    current_db_level, recording_frames, count, total_duration, saving_threads,
    threads_snapshot, join_i, log, delivered, abandoned, stops,
    show_level_meter, call, logger, adder, api, sess>>

C8_State ==
  /\ \A t \in 1..Len(tasks) :
       /\ tasks[t].pc = "failed" => ~tasks[t].encoded
       /\ ~tasks[t].encoded => tasks[t].duration = 0 /\ ~HasRecord(t)
  /\ total_duration = SumDurations({t \in 1..Len(tasks) : tasks[t].encoded
                                                          /\ tasks[t].pc # "duration"})

C8_Step ==
  \A t \in 1..Len(tasks) :
    /\ (tasks[t].pc = "encode" /\ tasks'[t].pc = "failed") =>
         /\ UNCHANGED NonTaskVars
         /\ \A u \in 1..Len(tasks) : u # t => tasks'[u] = tasks[u]
    /\ tasks[t].pc = "failed" => tasks'[t] = tasks[t]

\* C8: an encode failure stays in its save thread: the thread ends there and
\* the failure changes nothing else (accumulator, stream, other threads, log,
\* total); a chunk that was not encoded has no chunk record and adds nothing
\* to the total duration.
C8_EncodeFailureConfined == [](C8_State) /\ [][C8_Step]_vars

\* Chunk 1 failed to encode; chunk 2, handed off after it, is saved and logged.
C8_Witness ==
  /\ pc = "stopped"
  /\ Len(tasks) = 2
  /\ tasks[1].pc = "failed"
  /\ tasks[2].pc = "done"
  /\ HasRecord(2)
  /\ total_duration = tasks[2].duration

\* ------------------------------------------------------------------- C9
\* C9: a raising upload_file does not fail the save: the thread goes on to the
\* chunk record, the chunk's duration stays in the total, and the record has
\* s3_uploaded false and no object key.
C9_UploadFailureKeepsChunk ==
  \A t \in 1..Len(tasks) :
    tasks[t].upload_error =>
      /\ tasks[t].pc \in {"log", "done"}
      /\ tasks[t].duration = DurationOf(tasks[t].frames)
      /\ total_duration = SumDurations(1..Len(tasks))
      /\ ~tasks[t].s3_uploaded
      /\ tasks[t].s3_object_key = NoKey
      /\ tasks[t].pc = "done" =>
           \E j \in ChunkLines :
             /\ log[j].chunk_index = tasks[t].count
             /\ log[j].duration_sec = Round3(DurationOf(tasks[t].frames), rate)
             /\ ~log[j].s3_uploaded
             /\ log[j].s3_object_key = NoKey

\* The upload of chunk 1 failed and its record is written; chunk 2 is uploaded.
C9_Witness ==
  /\ Len(tasks) = 2
  /\ tasks[1].upload_error
  /\ tasks[1].pc = "done"
  /\ tasks[2].pc = "done"
  /\ tasks[2].s3_uploaded

\* ------------------------------------------------------------------ C10
C10_State ==
  pc = "config_error" =>
    /\ audio_stream = "none"
    /\ log = <<>>
    /\ delivered = <<>>
    /\ tasks = <<>>
    /\ stops = 0

C10_Step ==
  /\ pc = "new" => pc' \in {"idle", "config_error"}
  /\ (pc = "new" /\ pc' = "idle") =>
       (Lower(file_format') = "mp3" => rate' = MP3_REQUIRED_RATE)
  /\ pc = "config_error" => UNCHANGED vars

\* C10: the constructor accepts the mp3 format only with the required rate;
\* with any other rate it raises, and then no stream is ever opened, no
\* buffer delivered and no log record written.
C10_Mp3RateRejected == [](C10_State) /\ [][C10_Step]_vars

\* The constructor has raised.
C10_Witness == pc = "config_error"

\* ------------------------------------------------------------------ C11
\* C11: every call of stop_recording that has closed the stream of a started
\* session eventually appends its session-end record, whatever the save
\* threads do: the n-th call leads to a log with at least n session-end
\* records, also when a save thread never finishes.
C11_StopCompletes ==
  \A n \in 1..MaxStops :
    (stops = n /\ pc = "stop_flush" /\ audio_stream = "closed")
      ~> (pc = "stopped" /\ Cardinality(EndLines) >= n)

\* stop_recording has written session-end while a save thread it gave up on
\* is still in its encode step.
C11_Witness ==
  /\ pc = "stopped"
  /\ EndLines # {}
  /\ \E t \in abandoned : tasks[t].pc = "encode"

\* ------------------------------------------------------------------ C12
\* The device has a buffer for the callback (within the bounds of the model).
BufferPending ==
  audio_stream = "open" /\ count < MaxChunks /\ Len(delivered) < MaxBuffers

C12_State == BufferPending => ENABLED FillBuffer

C12_Step ==
  delivered' # delivered =>
    /\ Len(delivered') = Len(delivered) + 1
    /\ FlatFrames(tasks') \o recording_frames' = delivered'
    /\ audio_stream' = "open"
    /\ \A t \in 1..Len(tasks) : tasks'[t] = tasks[t]
    /\ UNCHANGED <<log, total_duration>>

get_current_db_level == current_db_level

\* C13 as stated: the level read is that of the most recent buffer the
\* callback processed (after gain).
C13_LevelOfLastBuffer ==
  delivered # <<>> =>
    get_current_db_level = calculate_db_level(delivered[Len(delivered)])

\* C13, amended: with the level meter enabled (the default, and what the
\* record command passes) the level read is that of the most recent buffer
\* the callback processed, after gain, and 0 before the first buffer; with
\* show_level_meter false the callback never writes it and every read gives
\* the initial 0.
C13_LevelOfLastBufferIfShown ==
  get_current_db_level =
    IF show_level_meter /\ delivered # <<>>
    THEN calculate_db_level(delivered[Len(delivered)])
    ELSE 0

\* The meter is on, gain is applied, and the last of three buffers has another
\* level than the first.
C13_Witness ==
  /\ show_level_meter
  /\ gain_factor # <<1, 1>>
  /\ Len(delivered) = 3
  /\ get_current_db_level # calculate_db_level(delivered[1])
  /\ get_current_db_level > 0

\* ------------------------------------------------------------------ C14
AllSamplesIn(b, S) ==
  ~b.odd /\ b.samples # <<>> /\ \A i \in 1..Len(b.samples) : b.samples[i] \in S

\* The level of the samples, before rounding to a decade, is at least 119.999:
\* their mean square is at least 2^30 * 10^(-0.0001) = 1073494614.3.
LevelWithinTolerance(audio_data) ==
  RatGeq(SumSq(audio_data), Len(audio_data), 1073494615, 1)

\* C14 as stated: the value returned is in [0,120], 0 for an all-zero buffer
\* and 120 for a full-scale buffer (every sample 32767 or -32768).
C14_LevelRangeAndEnds ==
  Returned("calculate_db_level") =>
    /\ call.result >= 0 /\ call.result <= 120
    /\ AllSamplesIn(call.args[1], {0}) => call.result = 0
    /\ AllSamplesIn(call.args[1], {32767, -32768}) => call.result = 120

\* C14, amended: for every buffer, empty and malformed (odd byte length) ones
\* included, calculate_db_level returns a value in [0,120]; an all-zero, an
\* empty and a malformed buffer give 0; a buffer at negative full scale
\* (-32768) gives exactly 120, and one at positive full scale (32767) gives a
\* value just below 120 (119.9997: in the decade of 110, and at least 119.999).
C14_LevelRangeAndEndsWithinTolerance ==
  Returned("calculate_db_level") =>
    LET b == call.args[1] IN
    /\ call.result >= 0 /\ call.result <= 120
    /\ (b.odd \/ b.samples = <<>> \/ AllSamplesIn(b, {0})) => call.result = 0
    /\ AllSamplesIn(b, {-32768}) => call.result = 120
    /\ AllSamplesIn(b, {32767}) =>
         call.result = 110 /\ LevelWithinTolerance(b.samples)

\* The level of the long quiet buffer is negative before the clamp, and the
\* call returned 0.
C14_Witness ==
  /\ Returned("calculate_db_level")
  /\ call.args[1] = Bytes(QuietBuffer, FALSE)
  /\ RawDb(QuietBuffer) < 0
  /\ call.result = 0

\* ------------------------------------------------------------------ C15
\* C15: apply_gain with factor exactly 1.0 returns its input unchanged, and
\* for every factor and every input (a malformed one included) the output has
\* as many bytes as the input.
C15_GainIdentityAndLength ==
  Returned("apply_gain") =>
    /\ call.args[2] = <<1, 1>> => call.result = call.args[1]
    /\ ByteLen(call.result) = ByteLen(call.args[1])

\* A gain of 2 applied to two samples gave another buffer of two samples.
C15_Witness ==
  /\ Returned("apply_gain")
  /\ call.args[2] = <<2, 1>>
  /\ call.args[1] = Bytes(<<3, 30000>>, FALSE)
  /\ call.result # call.args[1]
  /\ Len(call.result.samples) = 2

\* ------------------------------------------------------------------ C16
\* C16: apply_gain clamps instead of wrapping: every output sample is the scaled
\* value s * g, truncated to an integer and saturated to the 16-bit range (the
\* full one, or the symmetric -32767..32767 the function clips to), so a scaled
\* value beyond the range never comes out with the opposite sign.  Stated for
\* the positive gain factors.
C16_GainClamps ==
  (Returned("apply_gain") /\ ~call.args[1].odd /\ call.args[2][1] > 0) =>
    \A i \in 1..Len(call.args[1].samples) :
      LET scaled == TruncDiv(call.args[1].samples[i] * call.args[2][1],
                             call.args[2][2])
      IN  call.result.samples[i] \in {Clip(scaled, -32768, 32767),
                                      Clip(scaled, -max_int16, max_int16)}

\* ------------------------------------------------------------------ C17
\* Runs of "/" collapsed to a single one.
RECURSIVE Collapse(_)
Collapse(s) ==
  IF Len(s) < 2 THEN s
  ELSE IF s[1] = "/" /\ s[2] = "/" THEN Collapse(Tail(s))
  ELSE <<s[1]>> \o Collapse(Tail(s))

\* Without the "/" at either end, for a string that has no "//".
Strip(s) ==
  LET a == IF s # <<>> /\ s[1] = "/" THEN Tail(s) ELSE s
  IN  IF a # <<>> /\ a[Len(a)] = "/" THEN SubSeq(a, 1, Len(a) - 1) ELSE a

\* A normalized segment: backslashes turned into "/", empty parts dropped.
Normalized(s) == Strip(Collapse(Replace(s, "\\", "/")))

\* The base name of a path: what follows its last "/", trailing "/" apart.
RECURSIVE BaseName(_)
BaseName(path) ==
  IF path = <<>> THEN <<>>
  ELSE IF path[Len(path)] = "/" THEN BaseName(SubSeq(path, 1, Len(path) - 1))
  ELSE IF \E i \in 1..Len(path) : path[i] = "/"
       THEN SubSeq(path, (CHOOSE i \in 1..Len(path) :
                            /\ path[i] = "/"
                            /\ \A j \in (i + 1)..Len(path) : path[j] # "/") + 1,
                   Len(path))
  ELSE path

\* The key the claim describes.
ClaimedKey(filename, session_id, conversation_id, prefix) ==
  LET P == Normalized(prefix)
      G == IF conversation_id.is_none THEN <<>> ELSE Normalized(conversation_id.str)
  IN  (IF P # <<>> THEN P \o <<"/">> ELSE <<>>)
        \o (IF G # <<>> THEN G \o <<"/">> ELSE <<>>)
        \o Normalized(session_id) \o <<"/">> \o BaseName(filename)

\* C17: the key returned is the normalized prefix (if not empty), the
\* normalized conversation_id (if given and not empty), the normalized
\* session_id and the base name of filename, joined by "/"; filename 'a/f'
\* with session 'S' gives 'S/f', and with conversation 'G' and prefix 'P'
\* gives 'P/G/S/f'.
C17_KeyLayout ==
  Returned("build_object_key") =>
    /\ call.result = ClaimedKey(call.args[1], call.args[2], call.args[3],
                                call.args[4])
    /\ call.args = << <<"a", "/", "f">>, <<"S">>, None, <<>> >> =>
         call.result = <<"S", "/", "f">>
    /\ call.args = << <<"a", "/", "f">>, <<"S">>, Some(<<"G">>), <<"P">> >> =>
         call.result = <<"P", "/", "G", "/", "S", "/", "f">>

\* The second example has returned its key.
C17_Witness ==
  /\ Returned("build_object_key")
  /\ call.args = << <<"a", "/", "f">>, <<"S">>, Some(<<"G">>), <<"P">> >>
  /\ call.result = <<"P", "/", "G", "/", "S", "/", "f">>

\* ------------------------------------------------------------------ C18
\* C18: for all arguments the key returned has no backslash and no empty
\* segment: it neither starts nor ends with "/" and never contains "//".
C18_KeyWellFormed ==
  Returned("build_object_key") =>
    LET key == call.result IN
    /\ \A i \in 1..Len(key) : key[i] # "\\"
    /\ key # <<>> => key[1] # "/" /\ key[Len(key)] # "/"
    /\ \A i \in 1..(Len(key) - 1) : ~(key[i] = "/" /\ key[i + 1] = "/")

\* ------------------------------------------------------------------ C19
\* The lines of the file: a line is the text of one record followed by its
\* own end of line.
IsLine(file, i) ==
  /\ file[i].kind = "json"
  /\ file[i + 1].kind = "newline"
  /\ file[i + 1].rec = file[i].rec

\* The write_* calls that have returned.
ReturnedWrites ==
  {<<q[1], q[2], CallsOf(q[1])[q[2]]>> :
     q \in {p \in Writers \X (1..2) : p[2] < logger.writers[p[1]].k}}

C19_State ==
  LET file == logger.file IN
  \* whole lines only, but for the text of the one being written
  /\ \A i \in 1..Len(file) :
       i % 2 = 1 =>
         IF i < Len(file) THEN IsLine(file, i)
         ELSE /\ file[i].kind = "json"
              /\ logger.lock # 0
              /\ logger.writers[logger.lock].pc = "newline"
              /\ file[i].rec[1] = logger.lock
  \* a call that has returned has exactly one line, and no line is there twice
  /\ \A r \in ReturnedWrites :
       Cardinality({i \in 1..Len(file) : file[i].kind = "json" /\ file[i].rec = r}) = 1
  /\ \A i, j \in 1..Len(file) : file[i] = file[j] => i = j

C19_Step ==
  LET file == logger.file IN
  /\ Len(logger'.file) >= Len(file)
  /\ SubSeq(logger'.file, 1, Len(file)) = file
  \* a call returns having added its line, and only that, since it took the lock
  /\ \A w \in Writers :
       (logger.writers[w].pc = "unlock" /\ logger'.writers[w].pc # "unlock") =>
         /\ Len(file) >= 2
         /\ file[Len(file) - 1] = JsonOf(w, logger.writers[w].k)
         /\ file[Len(file)] = NewlineOf(w, logger.writers[w].k)

\* C19: the log is append-only and its writes are serialized: each
\* write_session_start, write_chunk and write_session_end call appends exactly
\* one whole line and leaves every earlier line as it was; lines written at
\* the same time by save threads and the orchestrator never interleave and
\* none is lost.
C19_LogAppendOnlySerialized == [](C19_State) /\ [][C19_Step]_vars

\* All threads have returned from all their calls on a file that held a line
\* before, and a chunk line comes before the session-start line.
C19_Witness ==
  /\ \A w \in Writers : logger.writers[w].pc = "done"
  /\ Len(logger.file) = 2 * (MaxWriters + 2)
  /\ SubSeq(logger.file, 1, 2) = OldFile
  /\ logger.file[3].rec[3] = "chunk"

\* ------------------------------------------------------------------ C20
\* C20: chunk_count of the session-end record is the number of chunks saved in
\* the session: once every save thread has ended, it equals the number of
\* chunk records in the log.
C20_ChunkCountIsRecords ==
  (\A t \in 1..Len(tasks) : Finished(t)) =>
    \A i \in EndLines : log[i].chunk_count = Cardinality(ChunkLines)

\* ------------------------------------------------------------------ C22
\* start_recording raised and wrote no session-start record: the main thread
\* is at the failure or in the stop_recording that record()'s handler calls.
FailedStart ==
  /\ StartLines = {}
  /\ pc \in {"start_failed", "stop_flush", "stop_join", "stopped"}

C22_State ==
  FailedStart =>
    /\ audio_stream # "open"
    /\ delivered = <<>>
    /\ ~ENABLED FillBuffer
    /\ ~ENABLED StartLog

C22_Step == FailedStart => FailedStart'

\* C22: a failure to open the capture device is terminal for start:
\* start_recording raises, the session never reaches running, no buffer is
\* ever delivered to the callback and no session-start record is written.
C22_OpenFailureTerminal == [](C22_State) /\ [][C22_Step]_vars

\* The start failed and the stop_recording of record()'s handler has run to
\* its end.
C22_Witness ==
  /\ FailedStart
  /\ pc = "stopped"
  /\ EndLines # {}

\* ------------------------------------------------------------------ C23
\* The requests that move object content to or from the bucket.
ContentRequests == {"upload_file", "put_object", "get_object", "download_file"}

NoContentTransferred(result) ==
  \A i \in 1..Len(result.requests) : result.requests[i] \notin ContentRequests

\* C23 as stated: check_bucket returns true when the probe succeeds and false
\* when it raises; it never raises and transfers no content.
C23_CheckBucketNeverRaises ==
  Returned("check_bucket") =>
    /\ call.result.raised = Null
    /\ call.result.value = IF call.args[1] = "returns" THEN "True" ELSE "False"
    /\ NoContentTransferred(call.result)

\* C23, amended: check_bucket returns true when the probe succeeds and false
\* when it raises an exception derived from Exception, and then raises
\* nothing; a KeyboardInterrupt raised during the probe leaves check_bucket.
\* It makes the head_bucket request alone, which transfers no content.
C23_CheckBucketCatchesExceptions ==
  Returned("check_bucket") =>
    /\ call.args[1] = "returns" =>
          call.result.value = "True" /\ call.result.raised = Null
    /\ call.args[1] \in ExceptionSubclasses =>
          call.result.value = "False" /\ call.result.raised = Null
    /\ call.args[1] = "KeyboardInterrupt" =>
          call.result.value = Null /\ call.result.raised = "KeyboardInterrupt"
    /\ NoContentTransferred(call.result)

\* The probe failed with an error that is not botocore's ClientError, and
\* check_bucket returned false.
C23_Witness ==
  /\ Returned("check_bucket")
  /\ call.args[1] = "EndpointConnectionError"
  /\ call.result.value = "False"

\* ------------------------------------------------------------------ C27
\* Thread t is one of those stop_recording called join on.
Joined(t) ==
  \E i \in 1..Len(JoinList(threads_snapshot)) : JoinList(threads_snapshot)[i] = t

AllDrained == \A t \in 1..Len(tasks) : Finished(t) /\ Joined(t)

C27_State == (pc = "stopped" /\ abandoned = {}) => AllDrained

C27_Step ==
  (pc = "stop_join" /\ pc' = "stopped" /\ abandoned = {}) =>
    AllDrained /\ tasks' = tasks

\* C27: stop drains all save tasks: when no join timed out, no save thread
\* of the session is still running at the moment session-end is written, and
\* every save thread created during the session, the one of the final partial
\* chunk included, was among those joined.
C27_StopDrainsAll == [](C27_State) /\ [][C27_Step]_vars

\* A stop without timeout whose last thread saved a final chunk shorter than
\* chunk_size.
C27_Witness ==
  /\ pc = "stopped"
  /\ abandoned = {}
  /\ Len(tasks) = 2
  /\ Len(tasks[2].frames) < chunk_size
  /\ AllDrained

\* ------------------------------------------------------------------ C28
\* The next step of thread t can be taken.
CanStep(t) ==
  /\ tasks[t].pc = "encode" => ENABLED SaveEncode(t)
  /\ tasks[t].pc = "duration" => ENABLED SaveDuration(t)
  /\ tasks[t].pc = "upload" => ENABLED SaveUpload(t)
  /\ tasks[t].pc = "log" => ENABLED SaveLog(t)

\* The chunk record of thread t has just been appended to the log.
RecordAppended(t) ==
  /\ Len(log') = Len(log) + 1
  /\ SubSeq(log', 1, Len(log)) = log
  /\ LET r == log'[Len(log')] IN
       /\ IsChunk(r)
       /\ r.session_id = SessionId
       /\ r.chunk_index = tasks[t].count
       /\ r.duration_sec = Round3(DurationOf(tasks[t].frames), rate)
       /\ r.s3_uploaded = tasks[t].s3_uploaded

C28_State ==
  /\ \A t \in abandoned : CanStep(t)
  /\ (pc = "stop_join" /\ join_i > Len(JoinList(threads_snapshot))) =>
        ENABLED StopLogEnd

C28_Step ==
  /\ \A i \in EndLines : i \in DOMAIN log' /\ log'[i] = log[i]
  /\ \A t \in abandoned' :
       /\ (pc' # pc \/ join_i' # join_i) => tasks'[t] = tasks[t]
       /\ tasks[t].encoded => tasks'[t].pc # "failed"
       /\ (tasks[t].pc = "duration" /\ tasks'[t].pc # "duration") =>
            total_duration' = total_duration + DurationOf(tasks[t].frames)
       /\ (tasks[t].pc = "log" /\ tasks'[t].pc # "log") =>
            tasks'[t].pc = "done" /\ RecordAppended(t)

\* C28: a save thread abandoned at the join timeout is not cancelled: each
\* of its steps can still be taken, once it has encoded it adds its duration
\* and appends a valid chunk record for its index, and the session-end record
\* is written without waiting for it and is never rewritten.
C28_AbandonedNotCancelled == [](C28_State) /\ [][C28_Step]_vars

\* A thread abandoned while encoding has written its chunk record after the
\* session-end record.
C28_Witness ==
  \E t \in abandoned :
    /\ tasks[t].pc = "done"
    /\ \E i \in EndLines, j \in ChunkLines :
         i < j /\ log[j].chunk_index = tasks[t].count
    /\ total_duration >= DurationOf(tasks[t].frames)

\* ------------------------------------------------------------------ C29
\* C29: when a save thread does not end within the join timeout,
\* stop_recording records the timeout as a warning before it writes
\* session-end.
C29_TimeoutWarned ==
  (pc = "stopped" /\ abandoned # {}) =>
    \E m \in AppLog : m.level = "WARNING" /\ m.thread = MainThread

\* ------------------------------------------------------------------ C30
\* The steps of _save that may follow one another directly.
SaveOrder ==
  {<<"encode", "duration">>, <<"encode", "failed">>, <<"duration", "upload">>,
   <<"duration", "log">>, <<"upload", "log">>, <<"log", "done">>}

UploadAttempted(task) == task.s3_uploaded \/ task.upload_error

C30_State ==
  \A t \in 1..Len(tasks) :
    /\ (tasks[t].pc = "upload" \/ UploadAttempted(tasks[t])) => tasks[t].encoded
    /\ tasks[t].pc \in {"upload", "log", "done"} =>
         tasks[t].encoded /\ tasks[t].duration = DurationOf(tasks[t].frames)
    /\ tasks[t].pc \in {"log", "done"} => (uploader => UploadAttempted(tasks[t]))
    /\ HasRecord(t) => tasks[t].pc = "done"
    /\ tasks[t].pc = "failed" => ~tasks[t].encoded /\ ~UploadAttempted(tasks[t])

C30_Step ==
  \A t \in 1..Len(tasks) :
    /\ tasks'[t].pc # tasks[t].pc => <<tasks[t].pc, tasks'[t].pc>> \in SaveOrder
    /\ (tasks[t].pc = "duration" /\ tasks'[t].pc = "log") => ~uploader
    /\ (~HasRecord(t) /\ HasRecord(t)') =>
         tasks[t].pc = "log" /\ tasks'[t].pc = "done"

\* C30: within one save thread the steps are ordered encode, duration
\* update, upload, chunk record: the upload is attempted only after the chunk
\* file was written (never after a failed encode), and the chunk record is
\* appended only after the upload attempt has returned or failed.
C30_SaveStepsOrdered == [](C30_State) /\ [][C30_Step]_vars

\* One thread has its record after a failed upload, another ended at a failed
\* encode without upload or record.
C30_Witness ==
  /\ Len(tasks) = 2
  /\ tasks[1].pc = "done" /\ tasks[1].upload_error /\ HasRecord(1)
  /\ tasks[2].pc = "failed" /\ ~HasRecord(2)

\* ------------------------------------------------------------------ C26
RECURSIVE SumOver(_)
SumOver(S) ==
  IF S = {} THEN 0
  ELSE LET w == CHOOSE x \in S : TRUE IN DurationSec(w) + SumOver(S \ {w})

\* The threads whose encode step has returned.
PastEncode == {w \in Savers : adder.threads[w].pc \notin {"encode", "failed"}}

\* The threads whose "+=" has stored its sum.
PastUpdate == {w \in Savers : adder.threads[w].pc \in {"release", "after"}}

\* C26 as stated: in every reachable state the total equals the sum of the
\* durations of exactly the save threads that have passed the encode step.
C26_TotalIsSumPastEncode == adder.total = SumOver(PastEncode)

C26_State == adder.total = SumOver(PastUpdate)

C26_Step == adder'.total >= adder.total

\* C26, amended: updates of the total are atomic: in every reachable state
\* the total equals the sum of the durations of exactly the save threads that
\* have completed the locked update following their encode step, whatever the
\* interleaving (no lost update), and it never decreases.  A thread between
\* the end of its encode and its update is not counted yet.
C26_TotalIsSumPastUpdate == [](C26_State) /\ [][C26_Step]_vars

\* One thread is inside the locked update, having read the total another
\* thread stored, while a third waits for the lock.
C26_Witness ==
  \E w \in Savers :
    /\ adder.lock = w
    /\ adder.threads[w].pc = "store"
    /\ adder.threads[w].loaded > 0
    /\ \E v \in Savers \ {w} : adder.threads[v].pc = "acquire"

\* ------------------------------------------------------------------ C21
OpenStreams == {s \in 1..Len(api.streams) : api.streams[s] = "open"}

\* C21: the session lifecycle only follows idle -> running -> stopping ->
\* stopped under any sequence of start_recording and stop_recording calls: no
\* second start while running opens a second capture stream or writes a second
\* session-start, and no start after stopped resumes capture.
C21_LifecycleOnly ==
  /\ Cardinality(OpenStreams) <= 1
  /\ api.session_starts <= 1
  /\ api.stops > 0 => OpenStreams = {}

\* ------------------------------------------------------------------ C24
Items(list) == {list[i] : i \in 1..Len(list)}

\* The lists held by a statement in progress: the saving_frames locals.
LocalLists ==
  {api.cb[s].saving_frames : s \in 1..Len(api.cb)} \cup {api.saving_frames}

\* Buffer k is in the accumulator, in a copy about to be handed off, or in
\* the list of a save thread.
Kept(k) ==
  \/ k \in Items(api.heap[api.recording_frames])
  \/ \E l \in LocalLists \ {0} : k \in Items(api.heap[l])
  \/ \E i \in 1..Len(api.threads) : k \in Items(api.heap[api.threads[i].frames])

\* The save threads whose list holds buffer k.
SavedIn(k) ==
  {i \in 1..Len(api.threads) : k \in Items(api.heap[api.threads[i].frames])}

\* The callback threads that have run _fill_buffer at least once.
ActiveCallbacks == {s \in 1..Len(api.cb) : api.cb[s].ran}

\* C24: the accumulator's buffer and chunk counter are protected against
\* concurrent access by the capture callback and the stop path: with one
\* callback thread running, in no interleaving of _fill_buffer with
\* stop_recording's drain is a buffer dropped, saved in two chunks, or the same
\* chunk index handed to two save threads.
C24_NoDropNoDuplicate ==
  Cardinality(ActiveCallbacks) <= 1 =>
    /\ \A k \in 1..api.delivered : Kept(k) /\ Cardinality(SavedIn(k)) <= 1
    /\ \A i, j \in 1..Len(api.threads) :
         i # j => api.threads[i].count # api.threads[j].count

\* ------------------------------------------------------------------ C25
\* The lists handed to save threads.
HandedLists == {api.threads[i].frames : i \in 1..Len(api.threads)}

\* A hand-off has just replaced the accumulator.
ResetDone ==
  \/ api.main = "stop_reset" /\ api'.main = "stop_count"
  \/ \E s \in 1..Len(api.cb) : api.cb[s].pc = "reset" /\ api'.cb[s].pc = "count"

C25_State ==
  /\ api.recording_frames \notin HandedLists \cup LocalLists
  /\ \A i, j \in 1..Len(api.threads) :
       i # j => api.threads[i].frames # api.threads[j].frames

C25_Step ==
  /\ ResetDone => api'.heap[api'.recording_frames] = <<>>
  /\ \A l \in HandedLists : api'.heap[l] = api.heap[l]

\* C25: ownership of a flushed buffer moves to its save thread: after a
\* hand-off the accumulator is empty, and no later callback append or stop
\* drain changes the frame list already handed to a save thread; the
\* accumulator and the handed-off lists are never the same list.
C25_HandoffMovesOwnership == [](C25_State) /\ [][C25_Step]_vars

\* The callback handed off a full chunk, a later buffer went to the new
\* accumulator and stop_recording's drain handed that off in turn.
C25_Witness ==
  /\ api.main = "ready"
  /\ api.stops = 1
  /\ Len(api.threads) = 2
  /\ api.heap[api.threads[1].frames] = <<1, 2>>
  /\ api.heap[api.threads[2].frames] = <<3>>
  /\ api.heap[api.recording_frames] = <<>>

\* ------------------------------------------------------------------ C31
\* The ffmpeg path does its work: the temporary file is written and ffmpeg
\* returns with status 0.
FfmpegPathSucceeds(env) == env.tmp = "written" /\ env.ffmpeg = "returns"

\* Neither encoder is there: pydub was not imported and there is no ffmpeg
\* executable.
NeitherAvailable(env) == env.pydub = "unavailable" /\ env.ffmpeg = "missing"

\* The order of the chain and its success, common to both statements of C31.
ChainOrdered(env, result) ==
  /\ result.tried = (IF env.pydub = "unavailable" THEN <<>> ELSE <<"pydub">>)
                      \o (IF env.pydub = "returns" THEN <<>> ELSE <<"ffmpeg">>)
  /\ (env.pydub = "returns" \/ FfmpegPathSucceeds(env)) =>
        result.raised = NoError /\ result.written
  /\ result.raised # NoError =>
        ~result.written /\ CaughtByHandler(result.raised.class)

C32_TmpAlwaysDeleted ==
  Returned("_save_mp3_with_ffmpeg") => call.result.tmp_files = 0

\* ------------------------------------------------------------------ C33
\* Every record and every chunk file written so far carries the session id
\* the object holds now.
C33_State ==
  /\ \A r \in sess.records : r.session_id = sess.session_id
  /\ \A f \in sess.files : f.session_id = sess.session_id

\* Once the constructor has run, no step changes the session id.
C33_Step == sess.pc \notin {"none", "new"} => sess'.session_id = sess.session_id

\* C33: the session id is fixed once at construction: start_recording, the
\* callback, the save tasks and stop_recording never change it, so the
\* session-start record, every chunk record, every chunk file name and the
\* session-end record carry the same session_id, whenever start is called.
C33_SessionIdFixed == [](C33_State) /\ [][C33_Step]_vars

\* A chunk whose thread was created after the clock had moved on from the
\* construction was saved, and the session has ended.
C33_Witness ==
  /\ sess.pc = "stopped"
  /\ {r.event : r \in sess.records} = {"start", "chunk", "end"}
  /\ \E t \in 1..Len(sess.threads) :
       /\ sess.threads[t].saved
       /\ sess.threads[t].start_time # sess.session_id
       /\ sess.threads[t].start_time[1] > sess.session_id[1]

\* ------------------------------------------------------------------ C34
\* s begins with p / ends with p.
StartsWith(s, p) == Len(s) >= Len(p) /\ SubSeq(s, 1, Len(p)) = p
EndsWith(s, p) == Len(s) >= Len(p) /\ SubSeq(s, Len(s) - Len(p) + 1, Len(s)) = p

\* C34: a save task writes to {output_dir}/{session_id}_{chunk_index:02}.{format};
\* within one session different chunk indices give different paths, also for
\* indices above 99, so no save task overwrites another chunk's file.
C34_PathPerIndex ==
  Returned("chunk_filename") =>
    LET dir == call.args[1]
        sid == call.args[2]
        fmt == call.args[4]
    IN  /\ StartsWith(call.result, WithSlash(dir) \o sid \o <<"_">>)
        /\ EndsWith(call.result, <<".">> \o fmt)
        /\ Len(call.result) >= Len(WithSlash(dir)) + Len(sid) + 1 + 2 + 1 + Len(fmt)
        /\ \A other \in ChunkIndices :
             other # call.args[3] =>
               chunk_filename(dir, sid, other, fmt) # call.result

\* The path of chunk 101, three digits wide.
C34_Witness ==
  /\ Returned("chunk_filename")
  /\ call.args[3] = 101
  /\ EndsWith(call.result, <<"_", "1", "0", "1", ".", "f">>)

\* ------------------------------------------------------------------ C35
\* start_recording has replaced the requested rate by the device's.
Negotiated == audio_stream # "none"

\* The save thread that wrote chunk record j.
TaskOfLine(j) == CHOOSE t \in 1..Len(tasks) : tasks[t].count = log[j].chunk_index

C35_State ==
  /\ \A i \in StartLines : log[i].sample_rate = rate
  /\ Len(tasks) > 0 => Negotiated
  /\ \A i \in StartLines : \A j \in ChunkLines :
       log[j].duration_sec =
         Round3(Len(tasks[TaskOfLine(j)].frames) * CHUNK, log[i].sample_rate)

\* Once negotiated, the rate is changed by no step: every encode and every
\* duration computed by a save thread reads the same value.
C35_Step == Negotiated => (rate' = rate /\ Negotiated')

\* C35: the sample rate negotiated at start is authoritative for the whole
\* session: the sample_rate of the session-start record is the rate every
\* chunk is encoded with and every duration is computed with, and no
\* operation after start changes it.
C35_NegotiatedRateKept == [](C35_State) /\ [][C35_Step]_vars

\* A flac session whose device runs at 48000 Hz: the start record says so and
\* a chunk of one buffer lasts a third of a second.
C35_Witness ==
  /\ pc = "stopped"
  /\ rate = 48000
  /\ \E i \in StartLines : log[i].sample_rate = 48000
  /\ \E j \in ChunkLines : log[j].duration_sec = 333

\* ------------------------------------------------------------------ C36
\* Thread t has computed its duration_sec.
DurationComputed(t) == tasks[t].pc \in {"upload", "log", "done"}

\* The duration is the number of buffers times the frames per buffer (over
\* the session rate), and the record shows it to the millisecond.
C36_State ==
  /\ \A t \in 1..Len(tasks) :
       DurationComputed(t) => tasks[t].duration = Len(tasks[t].frames) * CHUNK
  /\ \A j \in ChunkLines :
       log[j].duration_sec =
         Round3(Len(tasks[TaskOfLine(j)].frames) * CHUNK, rate)

\* Once computed it is changed by nothing: not by the upload, however it
\* ends, not by the record, not by any other thread's encode.
C36_Step ==
  \A t \in 1..Len(tasks) :
    DurationComputed(t) =>
      /\ tasks'[t].duration = tasks[t].duration
      /\ tasks'[t].frames = tasks[t].frames

\* C36: the duration reported for a chunk is nominal: (buffers in the chunk)
\* x (frames per buffer) / (session sample rate); it depends on the chunk's
\* buffer count and the session parameters alone, never on the clock or on
\* how long encoding or upload took.
C36_DurationNominal == [](C36_State) /\ [][C36_Step]_vars

\* Two chunks of different lengths, the first with a failed upload: each
\* record shows its own nominal duration.
C36_Witness ==
  /\ Len(tasks) = 2
  /\ tasks[1].upload_error
  /\ Len(tasks[1].frames) = 2 /\ Len(tasks[2].frames) = 1
  /\ \E i, j \in ChunkLines :
       /\ log[i].chunk_index = 1 /\ log[i].duration_sec = Round3(2 * CHUNK, rate)
       /\ log[j].chunk_index = 2 /\ log[j].duration_sec = Round3(CHUNK, rate)

\* ------------------------------------------------------------------ C37
\* The threads get their indices in capture order: thread t has index t and
\* the buffers of threads 1..t are the first buffers delivered.  A thread
\* that has its record to write waits for no other thread.
C37_State ==
  /\ \A t \in 1..Len(tasks) :
       /\ tasks[t].count = t
       /\ LET upto == FlatFrames(SubSeq(tasks, 1, t))
          IN  upto = SubSeq(delivered, 1, Len(upto))
  /\ \A t \in 1..Len(tasks) : tasks[t].pc = "log" => ENABLED SaveLog(t)

\* A hand-off creates one thread, with the next index.
C37_Step ==
  Len(tasks') # Len(tasks) =>
    /\ Len(tasks') = Len(tasks) + 1
    /\ tasks'[Len(tasks')].count = Len(tasks) + 1
    /\ \A t \in 1..Len(tasks) : tasks'[t].count = tasks[t].count

\* C37: chunk records are not ordered by index: the save threads run
\* concurrently, so the record of chunk i + 1 can be appended to the log
\* before the record of chunk i, while the indices were assigned in capture
\* order.
C37_IndicesInOrderRecordsNot == [](C37_State) /\ [][C37_Step]_vars

\* The record of chunk 2 precedes that of chunk 1, which was handed off first
\* and is a full chunk; the recorder is still running.
C37_Witness ==
  /\ Len(tasks) = 2
  /\ \E i, j \in ChunkLines :
       i < j /\ log[i].chunk_index = 2 /\ log[j].chunk_index = 1
  /\ Len(tasks[1].frames) = chunk_size
  /\ pc = "running"

\* ------------------------------------------------------------------ C38
\* C38: in an mp3 session that has started, every chunk is encoded at the
\* rate (16000 Hz) and channel count (1) the format requires: what the
\* constructor validated still holds for the rate the save threads use.
C38_Mp3RateAfterStart ==
  (Lower(file_format) = "mp3" /\ Len(tasks) > 0) =>
    (rate = MP3_REQUIRED_RATE /\ CHANNEL = MP3_REQUIRED_CHANNELS)

\* ------------------------------------------------------------------ C39
\* C39: a session-end record is written only for a session whose
\* session-start record is already in the log, under any calls of
\* start_recording and stop_recording, a stop after a failed start included.
C39_EndOnlyAfterStart ==
  \A i \in EndLines :
    \E j \in StartLines : j < i /\ log[j].session_id = log[i].session_id

\* ------------------------------------------------------------------ C40
\* Between callback invocations the accumulator is below the threshold; a
\* chunk holds between one buffer and the threshold; a chunk below the
\* threshold is the last one, made by stop's flush.
C40_State ==
  /\ pc \notin {"new", "config_error"} => Len(recording_frames) < chunk_size
  /\ \A t \in 1..Len(tasks) :
       /\ Len(tasks[t].frames) >= 1
       /\ Len(tasks[t].frames) <= chunk_size
       /\ Len(tasks[t].frames) < chunk_size => (StopFlushed /\ t = Len(tasks))

\* A chunk below the threshold is created by stop_recording alone.
C40_Step ==
  Len(tasks') > Len(tasks) =>
    (Len(tasks'[Len(tasks')].frames) < chunk_size => pc = "stop_flush")

\* C40: accumulator bounds, for a threshold >= 1: between callback
\* invocations the accumulator holds fewer buffers than the threshold, every
\* chunk handed to a save task holds at least one and at most threshold
\* buffers (no empty chunk is created), and only the chunk flushed by stop may
\* hold fewer than threshold buffers.
C40_AccumulatorBounds == [](C40_State) /\ [][C40_Step]_vars

\* Threshold 2, three buffers: a full chunk from the callback, then stop has
\* flushed one buffer; a second stop finds the accumulator empty and creates
\* nothing.
C40_Witness ==
  /\ stops = 2
  /\ pc = "stopped"
  /\ chunk_size = 2
  /\ Len(tasks) = 2
  /\ Len(tasks[1].frames) = 2
  /\ Len(tasks[2].frames) = 1

====
